---- MODULE Spec2Model ----
(***************************************************************************)
(* HMAC request authentication of go-template-service:                     *)
(* internal/infrastructure/middleware (HMACAuthMiddleware and its helpers)  *)
(* and its wiring in internal/infrastructure/appcore/hmac_module.go.        *)
(*                                                                         *)
(* A Go string is modelled as a sequence of one-character strings, so that *)
(* strings.Split, strings.HasPrefix, strings.TrimPrefix and concatenation  *)
(* are computed on characters.  The one exception is the base64 text of an *)
(* HMAC digest, which is a single opaque character naming the algorithm,   *)
(* the key bytes and the message (an ideal, collision-free MAC).           *)
(***************************************************************************)
EXTENDS Integers, Sequences, FiniteSets, TLC

VARIABLES
    cfg,            \* the HMACConfig the middleware was built with
    wiring,         \* "setup": installed by SetupHMACMiddleware; "direct": HMACAuthMiddleware(cfg)(next)
    pc,             \* position of the request in the handler
    req,            \* the *http.Request
    rbody,          \* what is left to read of r.Body
    credential,     \* validateHMACSignature's locals
    signature,
    dateHeader,
    contentHash,
    clientSecret,
    body,
    stringToSign,
    err,            \* the error validateHMACSignature returns ("" is nil)
    ran,            \* the steps of validateHMACSignature executed for this request, in order
    status,         \* HTTP status written by the middleware (0: none)
    detail,         \* detail of the problem response
    nextCalls,      \* times next.ServeHTTP ran for this request
    handlerBody,    \* what the downstream handler read from r.Body
    logs,           \* log records written for this request
    origin,         \* the accepted request this one was derived from, the component changed,
                    \* and the seconds passed since that request was accepted
    procs,          \* the requests in flight when several are served at once: for each
                    \* goroutine its position, request, locals and returned error
    svc,            \* internal/infrastructure/hmac: an HMACService and the calls made on it
    osenv,          \* internal/infrastructure/config: the process environment and the .env file
    wait,           \* migration.IntegrationManager.WaitForDatabase: its loop
    mig             \* migration.IntegrationManager.EnsureMigrations and its goroutine

vars == <<cfg, wiring, pc, req, rbody, credential, signature, dateHeader, contentHash,
          clientSecret, body, stringToSign, err, ran, status, detail, nextCalls,
          handlerBody, logs, origin, procs, svc, osenv, wait, mig>>

(***************************************************************************)
(* strings                                                                 *)
(***************************************************************************)
Empty == <<>>

HasPrefix(s, prefix) ==
    /\ Len(prefix) <= Len(s)
    /\ SubSeq(s, 1, Len(prefix)) = prefix

TrimPrefix(s, prefix) ==
    IF HasPrefix(s, prefix) THEN SubSeq(s, Len(prefix) + 1, Len(s)) ELSE s

RECURSIVE Split(_, _)
Split(s, sep) ==
    IF \E i \in 1..Len(s) : s[i] = sep
    THEN LET i == CHOOSE k \in 1..Len(s) : s[k] = sep /\ \A j \in 1..(k - 1) : s[j] # sep
         IN  <<SubSeq(s, 1, i - 1)>> \o Split(SubSeq(s, i + 1, Len(s)), sep)
    ELSE <<s>>

(***************************************************************************)
(* encoding/base64, StdEncoding                                            *)
(***************************************************************************)
B64Alphabet ==
    <<"A","B","C","D","E","F","G","H","I","J","K","L","M","N","O","P",
      "Q","R","S","T","U","V","W","X","Y","Z","a","b","c","d","e","f",
      "g","h","i","j","k","l","m","n","o","p","q","r","s","t","u","v",
      "w","x","y","z","0","1","2","3","4","5","6","7","8","9","+","/">>

B64Chars == {B64Alphabet[i] : i \in 1..Len(B64Alphabet)}

B64Value(c) == (CHOOSE i \in 1..Len(B64Alphabet) : B64Alphabet[i] = c) - 1

StripNewlines(s) == SelectSeq(s, LAMBDA c : c \notin {"\n", "\r"})

\* the bytes of one 4-character quantum; n is the number of bytes it carries
QuantumBytes(q, n) ==
    LET v(k) == IF q[k] = "=" THEN 0 ELSE B64Value(q[k])
        w    == v(1) * 262144 + v(2) * 4096 + v(3) * 64 + v(4)
    IN  SubSeq(<<w \div 65536, (w \div 256) % 256, w % 256>>, 1, n)

QuantumLen(q, last) ==
    IF \A k \in 1..4 : q[k] \in B64Chars THEN 3
    ELSE IF last /\ q[1] \in B64Chars /\ q[2] \in B64Chars /\ q[3] \in B64Chars /\ q[4] = "=" THEN 2
    ELSE IF last /\ q[1] \in B64Chars /\ q[2] \in B64Chars /\ q[3] = "=" /\ q[4] = "=" THEN 1
    ELSE 0

RECURSIVE DecodeQuanta(_)
DecodeQuanta(s) ==
    IF s = <<>> THEN [ok |-> TRUE, bytes |-> <<>>]
    ELSE LET q    == SubSeq(s, 1, 4)
             rest == SubSeq(s, 5, Len(s))
             n    == QuantumLen(q, rest = <<>>)
             r    == DecodeQuanta(rest)
         IN  IF n = 0 \/ ~r.ok THEN [ok |-> FALSE, bytes |-> <<>>]
             ELSE [ok |-> TRUE, bytes |-> QuantumBytes(q, n) \o r.bytes]

DecodeString(s) ==
    LET t == StripNewlines(s)
    IN  IF Len(t) % 4 # 0 THEN [ok |-> FALSE, bytes |-> <<>>] ELSE DecodeQuanta(t)

(***************************************************************************)
(* crypto/hmac with crypto/sha256 or crypto/sha512, then                   *)
(* base64.StdEncoding.EncodeToString: the text of the digest               *)
(***************************************************************************)
HMACBase64(algorithm, key, message) ==
    <<"mac:" \o ToString(<<algorithm, key, message>>)>>

(***************************************************************************)
(* middleware: the pure helpers                                            *)
(***************************************************************************)
CredentialPrefix == <<"C","r","e","d","e","n","t","i","a","l","=">>
SignaturePrefix  == <<"S","i","g","n","a","t","u","r","e","=">>

Sha256Name == <<"s","h","a","2","5","6">>
Sha512Name == <<"s","h","a","5","1","2">>
Localhost  == <<"l","o","c","a","l","h","o","s","t">>

\* the loop keeping the first Credential= and Signature= it meets
RECURSIVE ScanParams_FirstWins(_, _, _)
ScanParams_FirstWins(params, cred, sig) ==
    IF params = <<>> THEN [credential |-> cred, signature |-> sig]
    ELSE LET param == Head(params)
         IN  IF HasPrefix(param, CredentialPrefix)
             THEN ScanParams_FirstWins(Tail(params),
                      IF cred = Empty THEN TrimPrefix(param, CredentialPrefix) ELSE cred, sig)
             ELSE IF HasPrefix(param, SignaturePrefix)
             THEN ScanParams_FirstWins(Tail(params), cred,
                      IF sig = Empty THEN TrimPrefix(param, SignaturePrefix) ELSE sig)
             ELSE ScanParams_FirstWins(Tail(params), cred, sig)

\* the loop of parseAuthorizationHeader over params, carrying credential and signature
RECURSIVE ScanParams(_, _, _)
ScanParams(params, cred, sig) ==
    IF params = <<>> THEN [credential |-> cred, signature |-> sig]
    ELSE LET param == Head(params)
         IN  IF HasPrefix(param, CredentialPrefix)
             THEN ScanParams(Tail(params), TrimPrefix(param, CredentialPrefix), sig)
             ELSE IF HasPrefix(param, SignaturePrefix)
             THEN ScanParams(Tail(params), cred, TrimPrefix(param, SignaturePrefix))
             ELSE ScanParams(Tail(params), cred, sig)

\* a SignedHeaders parameter required next to Credential and Signature
parseAuthorizationHeader_SignedHeadersRequired(authHeader) ==
    LET parts == Split(authHeader, " ")
    IN  IF Len(parts) # 2
        THEN [credential |-> Empty, signature |-> Empty,
              err |-> "invalid Authorization header format"]
        ELSE LET params == Split(parts[2], "&")
                 found  == ScanParams(params, Empty, Empty)
             IN  IF \/ found.credential = Empty
                    \/ found.signature = Empty
                    \/ ~\E i \in 1..Len(params) :
                          HasPrefix(params[i], <<"S","i","g","n","e","d","H","e","a","d","e","r","s","=">>)
                 THEN [credential |-> Empty, signature |-> Empty,
                       err |-> "missing Credential or Signature in Authorization header"]
                 ELSE [credential |-> found.credential, signature |-> found.signature,
                       err |-> ""]

\* the scheme token required to name an algorithm
parseAuthorizationHeader_SchemeChecked(authHeader) ==
    LET parts == Split(authHeader, " ")
    IN  IF Len(parts) # 2 \/ parts[1] \notin {<<"H","M","A","C","-","S","H","A","2","5","6">>,
                                              <<"H","M","A","C","-","S","H","A","5","1","2">>}
        THEN [credential |-> Empty, signature |-> Empty,
              err |-> "invalid Authorization header format"]
        ELSE LET found == ScanParams(Split(parts[2], "&"), Empty, Empty)
             IN  IF found.credential = Empty \/ found.signature = Empty
                 THEN [credential |-> Empty, signature |-> Empty,
                       err |-> "missing Credential or Signature in Authorization header"]
                 ELSE [credential |-> found.credential, signature |-> found.signature,
                       err |-> ""]

parseAuthorizationHeader(authHeader) ==
    LET parts == Split(authHeader, " ")
    IN  IF Len(parts) # 2
        THEN [credential |-> Empty, signature |-> Empty,
              err |-> "invalid Authorization header format"]
        ELSE LET found == ScanParams(Split(parts[2], "&"), Empty, Empty)
             IN  IF found.credential = Empty \/ found.signature = Empty
                 THEN [credential |-> Empty, signature |-> Empty,
                       err |-> "missing Credential or Signature in Authorization header"]
                 ELSE [credential |-> found.credential, signature |-> found.signature,
                       err |-> ""]

\* the host taken to be localhost, as CreateHMACSignature does
createStringToSign_Localhost(r, bodyBytes, date, hash) ==
    LET verb         == r.method
        pathAndQuery == IF r.query # Empty THEN r.path \o <<"?">> \o r.query ELSE r.path
    IN  verb \o <<"\n">> \o pathAndQuery \o <<"\n">> \o date \o <<";">> \o Localhost \o <<";">> \o hash

createStringToSign(r, bodyBytes, date, hash) ==
    LET verb         == r.method
        pathAndQuery == IF r.query # Empty THEN r.path \o <<"?">> \o r.query ELSE r.path
        host         == r.host
    IN  verb \o <<"\n">> \o pathAndQuery \o <<"\n">> \o date \o <<";">> \o host \o <<";">> \o hash

\* the name compared without regard to case
getAlgorithm_FoldsCase(algorithm) ==
    LET lower == [i \in 1..Len(algorithm) |->
                    CASE algorithm[i] = "S" -> "s"
                      [] algorithm[i] = "H" -> "h"
                      [] algorithm[i] = "A" -> "a"
                      [] OTHER -> algorithm[i]]
    IN  IF lower = Sha512Name THEN "sha512.New" ELSE "sha256.New"

\* the sha256 constructor whatever the configured name
getAlgorithm_AlwaysSha256(algorithm) == "sha256.New"

getAlgorithm(algorithm) ==
    IF algorithm = Sha512Name THEN "sha512.New" ELSE "sha256.New"

\* the key taken from the secret's text instead of its decoded bytes
verifySignature_RawSecret(toSign, sig, secretKey, algorithm) ==
    LET secretBytes == DecodeString(secretKey)
    IN  IF ~secretBytes.ok
        THEN [ok |-> FALSE, err |-> "secret is not valid Base64"]
        ELSE [ok  |-> sig = HMACBase64(algorithm, secretKey, toSign),
              err |-> ""]

verifySignature(toSign, sig, secretKey, algorithm) ==
    LET secretBytes == DecodeString(secretKey)
    IN  IF ~secretBytes.ok
        THEN [ok |-> FALSE, err |-> "secret is not valid Base64"]
        ELSE [ok  |-> sig = HMACBase64(algorithm, secretBytes.bytes, toSign),
              err |-> ""]

\* the loop running to the end of the list: the last matching record wins
findClientSecret_LastWins(clientID, clientSecrets) ==
    IF \E i \in 1..Len(clientSecrets) : clientSecrets[i].ClientID = clientID
    THEN LET i == CHOOSE k \in 1..Len(clientSecrets) :
                      /\ clientSecrets[k].ClientID = clientID
                      /\ \A j \in (k + 1)..Len(clientSecrets) : clientSecrets[j].ClientID # clientID
         IN  [secret |-> clientSecrets[i].Secret, err |-> ""]
    ELSE [secret |-> Empty, err |-> "client ID not found"]

findClientSecret(clientID, clientSecrets) ==
    IF \E i \in 1..Len(clientSecrets) : clientSecrets[i].ClientID = clientID
    THEN LET i == CHOOSE k \in 1..Len(clientSecrets) :
                      /\ clientSecrets[k].ClientID = clientID
                      /\ \A j \in 1..(k - 1) : clientSecrets[j].ClientID # clientID
         IN  [secret |-> clientSecrets[i].Secret, err |-> ""]
    ELSE [secret |-> Empty, err |-> "client ID not found"]

\* a client without entry let through
checkRouteAccess_MissingEntryAllowed(clientID, route, routeRights) ==
    IF DOMAIN routeRights = {} THEN ""
    ELSE IF clientID \notin DOMAIN routeRights THEN ""
    ELSE LET allowedRoutes == routeRights[clientID]
         IN  IF \E i \in 1..Len(allowedRoutes) :
                    allowedRoutes[i] = <<"*">> \/ HasPrefix(route, allowedRoutes[i])
             THEN ""
             ELSE "client not authorized for route"

\* no default-open: an empty table has no entry for anyone
checkRouteAccess_NoDefaultOpen(clientID, route, routeRights) ==
    IF clientID \notin DOMAIN routeRights THEN "client has no route permissions"
    ELSE LET allowedRoutes == routeRights[clientID]
         IN  IF \E i \in 1..Len(allowedRoutes) :
                    allowedRoutes[i] = <<"*">> \/ HasPrefix(route, allowedRoutes[i])
             THEN ""
             ELSE "client not authorized for route"

\* patterns compared for equality instead of as prefixes
checkRouteAccess_ExactMatch(clientID, route, routeRights) ==
    IF DOMAIN routeRights = {} THEN ""
    ELSE IF clientID \notin DOMAIN routeRights THEN "client has no route permissions"
    ELSE LET allowedRoutes == routeRights[clientID]
         IN  IF \E i \in 1..Len(allowedRoutes) :
                    allowedRoutes[i] = <<"*">> \/ route = allowedRoutes[i]
             THEN ""
             ELSE "client not authorized for route"

checkRouteAccess(clientID, route, routeRights) ==
    IF DOMAIN routeRights = {} THEN ""
    ELSE IF clientID \notin DOMAIN routeRights THEN "client has no route permissions"
    ELSE LET allowedRoutes == routeRights[clientID]
         IN  IF \E i \in 1..Len(allowedRoutes) :
                    allowedRoutes[i] = <<"*">> \/ HasPrefix(route, allowedRoutes[i])
             THEN ""
             ELSE "client not authorized for route"

CreateHMACSignature(method, path, bodyBytes, date, hash, clientID, secretKey, algorithm) ==
    LET toSign      == method \o <<"\n">> \o path \o <<"\n">> \o date \o <<";">>
                           \o Localhost \o <<";">> \o hash
        hashFunc    == getAlgorithm(algorithm)
        secretBytes == DecodeString(secretKey)
    IN  IF ~secretBytes.ok
        THEN [signature |-> Empty, err |-> "secret is not valid Base64"]
        ELSE [signature |-> HMACBase64(hashFunc, secretBytes.bytes, toSign), err |-> ""]

\* the base64 text of the plain digest of message: an ideal, collision-free hash
HashBase64(hashFunc, message) == <<"hash:" \o ToString(<<hashFunc, message>>)>>

createContentHash(bodyBytes, algorithm) ==
    HashBase64(IF algorithm = Sha512Name THEN "sha512.New" ELSE "sha256.New", bodyBytes)

(***************************************************************************)
(* internal/infrastructure/hmac: HMACService                               *)
(***************************************************************************)
\* the hex text of the HMAC digest of message under key: as HMACBase64, ideal
HMACHex(hashFunc, key, message) == <<"machex:" \o ToString(<<hashFunc, key, message>>)>>

New(secret, algorithm) == [secret |-> secret, algo |-> algorithm]

getHash(h) ==
    CASE h.algo = Sha256Name -> "sha256.New"
      [] h.algo = Sha512Name -> "sha512.New"
      [] OTHER               -> "sha256.New"

Sign(h, data) == HMACHex(getHash(h), h.secret, data)

\* a comparison that stops at the end of the supplied signature
Verify_Prefix(h, data, sig) == HasPrefix(Sign(h, data), sig)

\* hmac.Equal on the bytes of the two hex texts
Verify(h, data, sig) == Sign(h, data) = sig

\* []byte(data) of a string is the sequence of its bytes, which is the string
SignString(h, data) == Sign(h, data)

VerifyString(h, data, sig) == Verify(h, data, sig)

\* the utility functions without the check of the secret
SignData_NoCheck(data, secret, algorithm) ==
    [sig |-> Sign(New(secret, algorithm), data), err |-> ""]

SignData(data, secret, algorithm) ==
    IF secret = Empty THEN [sig |-> Empty, err |-> "secret cannot be empty"]
    ELSE [sig |-> Sign(New(secret, algorithm), data), err |-> ""]

SignStringData(data, secret, algorithm) ==
    IF secret = Empty THEN [sig |-> Empty, err |-> "secret cannot be empty"]
    ELSE [sig |-> SignString(New(secret, algorithm), data), err |-> ""]

VerifyData(data, sig, secret, algorithm) ==
    IF secret = Empty THEN [ok |-> FALSE, err |-> "secret cannot be empty"]
    ELSE [ok |-> Verify(New(secret, algorithm), data, sig), err |-> ""]

VerifyStringData(data, sig, secret, algorithm) ==
    IF secret = Empty THEN [ok |-> FALSE, err |-> "secret cannot be empty"]
    ELSE [ok |-> VerifyString(New(secret, algorithm), data, sig), err |-> ""]

(***************************************************************************)
(* the configurations the service is started with                          *)
(***************************************************************************)
ClientA == <<"a">>
ClientB == <<"b">>
ClientZ == <<"z">>      \* a client of no credential record

SecretA  == <<"Q","Q","=","=">>     \* the byte 65
SecretA2 == <<"Q","R","=","=">>     \* the byte 65 again: trailing bits are not checked
SecretB  == <<"Q","g","=","=">>     \* the byte 66
SecretBad == <<"Q","!","=","=">>    \* not base64

Star  == <<"*">>
PathA  == <<"/","a">>
PathAB == <<"/","a","/","b">>
PathB  == <<"/","b">>

HMACClientSecret(id, secret) == [ClientID |-> id, Secret |-> secret]

ClientSecretLists ==
    { <<>>,
      <<HMACClientSecret(ClientA, SecretA), HMACClientSecret(ClientB, SecretB)>>,
      <<HMACClientSecret(ClientA, SecretBad), HMACClientSecret(ClientB, SecretA2),
        HMACClientSecret(ClientA, SecretA)>> }

NoRights == [c \in {} |-> <<>>]

RouteRightsTables ==
    { NoRights,
      [c \in {ClientA} |-> <<Star>>],
      [c \in {ClientA, ClientB} |-> IF c = ClientA THEN <<PathAB, PathB>> ELSE <<>>],
      [c \in {ClientB, ClientZ} |-> IF c = ClientB THEN <<PathA>> ELSE <<Star>>] }

AlgorithmNames == {Sha256Name, Sha512Name}

\* HMAC_MAX_AGE when it is not set
MaxAgeDefault == 300

\* the environment at startup: whether HMAC_CLIENT_SECRETS and HMAC_ROUTE_RIGHTS
\* are JSON of the expected shape, and what they unmarshal to
Environments ==
    [secretsJSON : BOOLEAN, clientSecrets : ClientSecretLists,
     rightsJSON : BOOLEAN, routeRights : RouteRightsTables,
     algorithm : AlgorithmNames, maxAge : {MaxAgeDefault}, required : BOOLEAN]

HMACConfig(env) ==
    [clientSecrets |-> env.clientSecrets, routeRights |-> env.routeRights,
     algorithm |-> env.algorithm, maxAge |-> env.maxAge, required |-> env.required]

\* startup also refusing a secret that is not base64
ProvideHMACConfig_ChecksSecrets(env) ==
    IF ~env.secretsJSON THEN [err |-> "failed to parse HMAC_CLIENT_SECRETS"]
    ELSE IF ~env.rightsJSON THEN [err |-> "failed to parse HMAC_ROUTE_RIGHTS"]
    ELSE IF \E i \in 1..Len(env.clientSecrets) : ~DecodeString(env.clientSecrets[i].Secret).ok
         THEN [err |-> "failed to parse HMAC_CLIENT_SECRETS"]
    ELSE [err |-> ""]

\* the error ProvideHMACConfig returns ("" is nil)
ProvideHMACConfig(env) ==
    IF ~env.secretsJSON THEN [err |-> "failed to parse HMAC_CLIENT_SECRETS"]
    ELSE IF ~env.rightsJSON THEN [err |-> "failed to parse HMAC_ROUTE_RIGHTS"]
    ELSE [err |-> ""]

\* the configurations of the services that start
Configs == { HMACConfig(env) : env \in {e \in Environments : ProvideHMACConfig(e).err = ""} }

\* SetupHMACMiddleware installs the middleware only when it is required
Installed == wiring = "direct" \/ cfg.required

(***************************************************************************)
(* the requests that arrive                                                *)
(***************************************************************************)
MethodGet  == <<"G","E","T">>
MethodPost == <<"P","O","S","T">>
QueryX     == <<"x","=","1">>
HostOther  == <<"h",".","i","o">>
DateMon    == <<"M","o","n",","," ","0","2">>
DateTue    == <<"T","u","e",","," ","0","3">>
HashOne    == <<"h","1","=">>
HashTwo    == <<"h","2","=">>

\* the longest request body sent
MaxBodyLen == 2

\* a body of n bytes: {}{}...
BodyOfLen(n) == [i \in 1..n |-> IF i % 2 = 1 THEN "{" ELSE "}"]

Methods  == {MethodGet, MethodPost}
Paths    == {PathA, PathAB, PathB}
Queries  == {Empty, QueryX}
Hosts    == {Localhost, HostOther}
Bodies   == {BodyOfLen(n) : n \in 0..MaxBodyLen}
ClientIDs == {ClientA, ClientB, ClientZ}

SchemeSHA256 == <<"H","M","A","C","-","S","H","A","2","5","6">>
SchemeSHA512 == <<"H","M","A","C","-","S","H","A","5","1","2">>
SignedHeadersParam ==
    <<"S","i","g","n","e","d","H","e","a","d","e","r","s","=",
      "d","a","t","e",";","h","o","s","t",";","x","-","c","o","n","t","e","n","t","-","h","m","a","c">>
JunkSignature == <<"A","A","A","A">>

Wire0 ==
    [method |-> MethodGet, path |-> PathA, query |-> Empty, host |-> Localhost,
     date |-> DateMon, chash |-> HashOne, body |-> Empty, bodyOK |-> TRUE, auth |-> Empty]

\* the string an external signer signs: VERB\npathAndQuery\ntimestamp;host;contentHash
SignerStringToSign(r) ==
    r.method \o <<"\n">> \o r.path \o (IF r.query = Empty THEN Empty ELSE <<"?">> \o r.query)
        \o <<"\n">> \o r.date \o <<";">> \o r.host \o <<";">> \o r.chash

\* the secret a client signs with: its own record's when it has one
SigningSecret(c, id) ==
    LET found == findClientSecret(id, c.clientSecrets)
    IN  IF found.err = "" /\ DecodeString(found.secret).ok THEN found.secret ELSE SecretB

OtherAlgorithm(name) == IF name = Sha512Name THEN Sha256Name ELSE Sha512Name

SignatureKinds == {"good", "otherAlgorithm", "junk"}

ClientSignature(c, r, id, kind) ==
    LET key == DecodeString(SigningSecret(c, id)).bytes
    IN  CASE kind = "good" ->
               HMACBase64(getAlgorithm(c.algorithm), key, SignerStringToSign(r))
          [] kind = "otherAlgorithm" ->
               HMACBase64(getAlgorithm(OtherAlgorithm(c.algorithm)), key, SignerStringToSign(r))
          [] OTHER -> JunkSignature

HeaderShapes ==
    {"std", "noSignedHeaders", "reversed", "noSignature", "noCredential", "emptyCredential",
     "emptySignature", "lastCredentialWins", "lastCredentialEmpty", "oneSegment",
     "threeSegments", "doubleSpace", "absent", "lowercase", "emptyScheme", "otherScheme"}

AuthorizationHeader(shape, id, sig) ==
    LET cred   == CredentialPrefix \o id
        sg     == SignaturePrefix \o sig
        amp    == <<"&">>
        sp     == <<" ">>
        params == cred \o amp \o SignedHeadersParam \o amp \o sg
    IN  CASE shape = "std"                 -> SchemeSHA256 \o sp \o params
          [] shape = "otherScheme"         -> SchemeSHA512 \o sp \o params
          [] shape = "emptyScheme"         -> sp \o params
          [] shape = "noSignedHeaders"     -> SchemeSHA256 \o sp \o cred \o amp \o sg
          [] shape = "reversed"            -> SchemeSHA256 \o sp \o sg \o amp \o SignedHeadersParam \o amp \o cred
          [] shape = "noSignature"         -> SchemeSHA256 \o sp \o cred \o amp \o SignedHeadersParam
          [] shape = "noCredential"        -> SchemeSHA256 \o sp \o SignedHeadersParam \o amp \o sg
          [] shape = "emptyCredential"     -> SchemeSHA256 \o sp \o CredentialPrefix \o amp \o sg
          [] shape = "emptySignature"      -> SchemeSHA256 \o sp \o cred \o amp \o SignaturePrefix
          [] shape = "lastCredentialWins"  -> SchemeSHA256 \o sp \o CredentialPrefix \o ClientZ \o amp \o cred \o amp \o sg
          [] shape = "lastCredentialEmpty" -> SchemeSHA256 \o sp \o cred \o amp \o sg \o amp \o CredentialPrefix
          [] shape = "oneSegment"          -> SchemeSHA256
          [] shape = "threeSegments"       -> SchemeSHA256 \o sp \o params \o sp \o <<"x">>
          [] shape = "doubleSpace"         -> SchemeSHA256 \o sp \o sp \o params
          [] shape = "lowercase"           -> SchemeSHA256 \o sp \o <<"c">> \o Tail(cred) \o amp \o sg
          [] OTHER                         -> Empty

Signed(c, w, shape, id, kind) ==
    [w EXCEPT !.auth = AuthorizationHeader(shape, id, ClientSignature(c, w, id, kind))]

PipelineWires ==
    { [Wire0 EXCEPT !.path = p, !.date = dh[1], !.chash = dh[2], !.bodyOK = ok] :
        p \in Paths, dh \in {<<DateMon, HashOne>>, <<Empty, HashOne>>, <<DateMon, Empty>>},
        ok \in BOOLEAN }

CanonicalWires ==
    { [Wire0 EXCEPT !.method = m, !.path = p, !.query = q, !.host = h, !.body = b] :
        m \in Methods, p \in Paths, q \in Queries, h \in Hosts, b \in Bodies }

ShapeWires == {Wire0, [Wire0 EXCEPT !.date = Empty]}

\* requests whose body stream fails while it is read
BrokenBodyWires == { [Wire0 EXCEPT !.body = b, !.bodyOK = FALSE] : b \in Bodies }

\* requests whose x-content-hmac is the hash of the body they carry
HashedWires(c) ==
    { [Wire0 EXCEPT !.body = b, !.chash = createContentHash(b, c.algorithm)] : b \in Bodies }

Requests(c) ==
    { Signed(c, w, "std", id, kind) : w \in PipelineWires, id \in ClientIDs, kind \in SignatureKinds }
    \cup { Signed(c, w, "std", ClientA, "good") : w \in CanonicalWires }
    \cup { Signed(c, w, shape, ClientA, "good") : w \in ShapeWires, shape \in HeaderShapes }
    \cup { Signed(c, w, "std", ClientA, "good") : w \in HashedWires(c) \cup BrokenBodyWires }

\* a captured request with exactly one component of the signed string changed
Components == {"method", "path", "query", "date", "host", "chash"}

ComponentValues(component) ==
    CASE component = "method" -> Methods
      [] component = "path"   -> Paths
      [] component = "query"  -> Queries
      [] component = "date"   -> {Empty, DateMon, DateTue}
      [] component = "host"   -> Hosts
      [] OTHER                -> {Empty, HashOne, HashTwo}

Changed(r, component, value) ==
    CASE component = "method" -> [r EXCEPT !.method = value]
      [] component = "path"   -> [r EXCEPT !.path = value]
      [] component = "query"  -> [r EXCEPT !.query = value]
      [] component = "date"   -> [r EXCEPT !.date = value]
      [] component = "host"   -> [r EXCEPT !.host = value]
      [] OTHER                -> [r EXCEPT !.chash = value]

NoOrigin == [base |-> Wire0, component |-> "", elapsed |-> 0]

\* the goroutines serving requests at the same time
NumProcs == 2

Procs == 1..NumProcs

IdleProc ==
    [pc |-> "idle", req |-> Wire0, credential |-> Empty, signature |-> Empty,
     secret |-> Empty, err |-> <<>>, alone |-> <<>>]

(***************************************************************************)
(* the state machine: one request at a time through the handler            *)
(***************************************************************************)
\* the middleware before a request
HandlerInit ==
    /\ cfg \in Configs
    /\ wiring \in {"setup", "direct"}
    /\ pc = "idle"
    /\ req = Wire0
    /\ rbody = Empty
    /\ credential = Empty
    /\ signature = Empty
    /\ dateHeader = Empty
    /\ contentHash = Empty
    /\ clientSecret = Empty
    /\ body = Empty
    /\ stringToSign = Empty
    /\ err = <<>>
    /\ ran = <<>>
    /\ status = 0
    /\ detail = <<>>
    /\ nextCalls = 0
    /\ handlerBody = Empty
    /\ logs = <<>>
    /\ origin = NoOrigin
    /\ procs = [p \in Procs |-> IdleProc]

\* the other packages at rest
NoService == [service |-> [secret |-> <<>>, algo |-> <<>>]]
NoEnv     == [loaded |-> FALSE, file |-> [status |-> "absent"]]
NoWait    == [pc |-> ""]
NoMigrate == [pc |-> ""]

Init ==
    /\ HandlerInit
    /\ svc = NoService
    /\ osenv = NoEnv
    /\ wait = NoWait
    /\ mig = NoMigrate

\* the server hands request r to the handler chain
Receive(r, o) ==
    /\ pc' = IF Installed THEN "authorization" ELSE "next"
    /\ req' = r
    /\ rbody' = r.body
    /\ origin' = o
    /\ credential' = Empty
    /\ signature' = Empty
    /\ dateHeader' = Empty
    /\ contentHash' = Empty
    /\ clientSecret' = Empty
    /\ body' = Empty
    /\ stringToSign' = Empty
    /\ err' = <<>>
    /\ ran' = <<>>
    /\ status' = 0
    /\ detail' = <<>>
    /\ nextCalls' = 0
    /\ handlerBody' = Empty
    /\ logs' = <<>>
    /\ UNCHANGED <<svc, osenv, wait, mig, cfg, wiring, procs>>

Arrive ==
    /\ pc = "idle"
    /\ \E r \in Requests(cfg) : Receive(r, NoOrigin)

\* validateHMACSignature returned nil for the request just served
Accepted == pc = "done" /\ Installed /\ err = <<>>

\* a request that was accepted is sent again with another body, its headers as signed
TamperBody ==
    /\ Accepted
    /\ origin = NoOrigin
    /\ \E b \in Bodies :
         /\ b # req.body
         /\ Receive([req EXCEPT !.body = b], [base |-> req, component |-> "body", elapsed |-> 0])

\* a request that was accepted is sent again, unchanged, when more seconds than
\* the configured maximum age have passed since it was signed and accepted
ReplayLater ==
    /\ Accepted
    /\ origin = NoOrigin
    /\ Receive(req, [base |-> req, component |-> "", elapsed |-> cfg.maxAge + 1])

\* a request that was accepted, itself no replay, is sent again with one
\* component changed
Replay ==
    /\ Accepted
    /\ origin = NoOrigin
    /\ \E component \in Components :
         \E value \in ComponentValues(component) :
            /\ Changed(req, component, value) # req
            /\ Receive(Changed(req, component, value),
                       [base |-> req, component |-> component, elapsed |-> 0])

\* a step that goes on to the next one whatever it found
Step_NoShortCircuit(name, e, then) ==
    /\ ran' = Append(ran, name)
    /\ err' = e
    /\ pc' = then

\* a step of validateHMACSignature: it returns e when e is an error, else goes on
Step(name, e, then) ==
    /\ ran' = Append(ran, name)
    /\ err' = e
    /\ pc' = IF e # <<>> THEN "returned" ELSE then

GetAuthorization ==
    /\ pc = "authorization"
    /\ Step("authorization",
            IF req.auth = Empty THEN <<"missing Authorization header">> ELSE <<>>,
            "parse")
    /\ UNCHANGED <<svc, osenv, wait, mig, cfg, wiring, procs, req, rbody, credential, signature, dateHeader, contentHash,
                   clientSecret, body, stringToSign, status, detail, nextCalls,
                   handlerBody, logs, origin>>

ParseAuthorization ==
    /\ pc = "parse"
    /\ LET parsed == parseAuthorizationHeader(req.auth)
       IN  /\ credential' = parsed.credential
           /\ signature' = parsed.signature
           /\ Step("parse",
                   IF parsed.err # "" THEN <<"invalid Authorization header", parsed.err>>
                                     ELSE <<>>,
                   "date")
    /\ UNCHANGED <<svc, osenv, wait, mig, cfg, wiring, procs, req, rbody, dateHeader, contentHash,
                   clientSecret, body, stringToSign, status, detail, nextCalls,
                   handlerBody, logs, origin>>

GetDate ==
    /\ pc = "date"
    /\ dateHeader' = req.date
    /\ Step("date", IF req.date = Empty THEN <<"missing Date header">> ELSE <<>>,
            "contentHash")
    /\ UNCHANGED <<svc, osenv, wait, mig, cfg, wiring, procs, req, rbody, credential, signature, contentHash,
                   clientSecret, body, stringToSign, status, detail, nextCalls,
                   handlerBody, logs, origin>>

\* the x-content-hmac header read but not required
GetContentHash_NoCheck ==
    /\ pc = "contentHash"
    /\ contentHash' = req.chash
    /\ Step("contentHash", <<>>, "findClient")
    /\ UNCHANGED <<svc, osenv, wait, mig, cfg, wiring, procs, req, rbody, credential, signature, dateHeader,
                   clientSecret, body, stringToSign, status, detail, nextCalls,
                   handlerBody, logs, origin>>

GetContentHash ==
    /\ pc = "contentHash"
    /\ contentHash' = req.chash
    /\ Step("contentHash",
            IF req.chash = Empty THEN <<"missing x-content-hmac header">> ELSE <<>>,
            "findClient")
    /\ UNCHANGED <<svc, osenv, wait, mig, cfg, wiring, procs, req, rbody, credential, signature, dateHeader,
                   clientSecret, body, stringToSign, status, detail, nextCalls,
                   handlerBody, logs, origin>>

FindClient ==
    /\ pc = "findClient"
    /\ LET found == findClientSecret(credential, cfg.clientSecrets)
       IN  /\ clientSecret' = found.secret
           /\ Step("findClient",
                   IF found.err # "" THEN <<"client not found or invalid", found.err>>
                                    ELSE <<>>,
                   "checkRoute")
    /\ UNCHANGED <<svc, osenv, wait, mig, cfg, wiring, procs, req, rbody, credential, signature, dateHeader, contentHash,
                   body, stringToSign, status, detail, nextCalls,
                   handlerBody, logs, origin>>

CheckRoute ==
    /\ pc = "checkRoute"
    /\ LET denied == checkRouteAccess(credential, req.path, cfg.routeRights)
       IN  Step("checkRoute",
                IF denied # "" THEN <<"access denied to route", denied>> ELSE <<>>,
                "readBody")
    /\ UNCHANGED <<svc, osenv, wait, mig, cfg, wiring, procs, req, rbody, credential, signature, dateHeader, contentHash,
                   clientSecret, body, stringToSign, status, detail, nextCalls,
                   handlerBody, logs, origin>>

\* io.ReadAll(r.Body), then r.Body = io.NopCloser(bytes.NewBuffer(body))
ReadBody ==
    /\ pc = "readBody"
    /\ IF req.bodyOK
       THEN /\ body' = rbody
            /\ rbody' = body'
            /\ Step("readBody", <<>>, "stringToSign")
       ELSE /\ \E n \in 0..Len(rbody) :
                 /\ body' = SubSeq(rbody, 1, n)
                 /\ rbody' = SubSeq(rbody, n + 1, Len(rbody))
            /\ Step("readBody", <<"failed to read request body">>, "stringToSign")
    /\ UNCHANGED <<svc, osenv, wait, mig, cfg, wiring, procs, req, credential, signature, dateHeader, contentHash,
                   clientSecret, stringToSign, status, detail, nextCalls,
                   handlerBody, logs, origin>>

CreateStringToSign ==
    /\ pc = "stringToSign"
    /\ stringToSign' = createStringToSign(req, body, dateHeader, contentHash)
    /\ Step("stringToSign", <<>>, "verify")
    /\ UNCHANGED <<svc, osenv, wait, mig, cfg, wiring, procs, req, rbody, credential, signature, dateHeader, contentHash,
                   clientSecret, body, status, detail, nextCalls,
                   handlerBody, logs, origin>>

VerifySignature ==
    /\ pc = "verify"
    /\ LET algorithm == getAlgorithm(cfg.algorithm)
           v         == verifySignature(stringToSign, signature, clientSecret, algorithm)
       IN  Step("verify",
                IF v.ok THEN <<>>
                ELSE IF v.err # "" THEN <<"invalid HMAC signature", v.err>>
                ELSE <<"invalid HMAC signature">>,
                "returned")
    /\ UNCHANGED <<svc, osenv, wait, mig, cfg, wiring, procs, req, rbody, credential, signature, dateHeader, contentHash,
                   clientSecret, body, stringToSign, status, detail, nextCalls,
                   handlerBody, logs, origin>>

\* the problem response without the return that follows it
WriteUnauthorized_NoReturn ==
    /\ pc = "returned"
    /\ err # <<>>
    /\ cfg.required
    /\ status' = 401
    /\ detail' = err
    /\ pc' = "next"
    /\ UNCHANGED <<svc, osenv, wait, mig, cfg, wiring, procs, req, rbody, credential, signature, dateHeader, contentHash,
                   clientSecret, body, stringToSign, err, ran, nextCalls,
                   handlerBody, logs, origin>>

\* HMACAuthMiddleware, err != nil and cfg.IsRequired(): the problem response
WriteUnauthorized ==
    /\ pc = "returned"
    /\ err # <<>>
    /\ cfg.required
    /\ status' = 401
    /\ detail' = err
    /\ pc' = "done"
    /\ UNCHANGED <<svc, osenv, wait, mig, cfg, wiring, procs, req, rbody, credential, signature, dateHeader, contentHash,
                   clientSecret, body, stringToSign, err, ran, nextCalls,
                   handlerBody, logs, origin>>

\* HMACAuthMiddleware, err != nil and not required: logger.Warn when logging.New gave a logger
WarnAndContinue ==
    /\ pc = "returned"
    /\ err # <<>>
    /\ ~cfg.required
    /\ \E loggerOK \in BOOLEAN :
         logs' = IF loggerOK
                 THEN Append(logs, [level |-> "warn", msg |-> "HMAC validation warning",
                                    error |-> err])
                 ELSE logs
    /\ pc' = "next"
    /\ UNCHANGED <<svc, osenv, wait, mig, cfg, wiring, procs, req, rbody, credential, signature, dateHeader, contentHash,
                   clientSecret, body, stringToSign, err, ran, status, detail, nextCalls,
                   handlerBody, origin>>

Pass ==
    /\ pc = "returned"
    /\ err = <<>>
    /\ pc' = "next"
    /\ UNCHANGED <<svc, osenv, wait, mig, cfg, wiring, procs, req, rbody, credential, signature, dateHeader, contentHash,
                   clientSecret, body, stringToSign, err, ran, status, detail, nextCalls,
                   handlerBody, logs, origin>>

\* next.ServeHTTP(w, r): the downstream handler reads the body and answers
ServeHTTP ==
    /\ pc = "next"
    /\ nextCalls' = nextCalls + 1
    /\ handlerBody' = rbody
    /\ rbody' = Empty
    /\ status' = 200
    /\ pc' = "done"
    /\ UNCHANGED <<svc, osenv, wait, mig, cfg, wiring, procs, req, credential, signature, dateHeader, contentHash,
                   clientSecret, body, stringToSign, err, ran, detail, logs, origin>>

\* the response is written and the request's goroutine ends
Finish ==
    /\ pc = "done"
    /\ pc' = "idle"
    /\ req' = Wire0
    /\ rbody' = Empty
    /\ origin' = NoOrigin
    /\ credential' = Empty
    /\ signature' = Empty
    /\ dateHeader' = Empty
    /\ contentHash' = Empty
    /\ clientSecret' = Empty
    /\ body' = Empty
    /\ stringToSign' = Empty
    /\ err' = <<>>
    /\ ran' = <<>>
    /\ status' = 0
    /\ detail' = <<>>
    /\ nextCalls' = 0
    /\ handlerBody' = Empty
    /\ logs' = <<>>
    /\ UNCHANGED <<svc, osenv, wait, mig, cfg, wiring, procs>>

Next ==
    \/ Arrive
    \/ Replay
    \/ TamperBody
    \/ ReplayLater
    \/ GetAuthorization
    \/ ParseAuthorization
    \/ GetDate
    \/ GetContentHash
    \/ FindClient
    \/ CheckRoute
    \/ ReadBody
    \/ CreateStringToSign
    \/ VerifySignature
    \/ WriteUnauthorized
    \/ WarnAndContinue
    \/ Pass
    \/ ServeHTTP
    \/ Finish

Spec == Init /\ [][Next]_vars

(***************************************************************************)
(* validateHMACSignature as one function of the request and configuration  *)
(* (the error it returns), and the failure kinds of its errors             *)
(***************************************************************************)
validateHMACSignature(r, c) ==
    IF r.auth = Empty THEN <<"missing Authorization header">>
    ELSE LET parsed == parseAuthorizationHeader(r.auth)
         IN  IF parsed.err # "" THEN <<"invalid Authorization header", parsed.err>>
             ELSE IF r.date = Empty THEN <<"missing Date header">>
             ELSE IF r.chash = Empty THEN <<"missing x-content-hmac header">>
             ELSE LET found == findClientSecret(parsed.credential, c.clientSecrets)
                  IN  IF found.err # "" THEN <<"client not found or invalid", found.err>>
                      ELSE LET denied == checkRouteAccess(parsed.credential, r.path, c.routeRights)
                           IN  IF denied # "" THEN <<"access denied to route", denied>>
                               ELSE IF ~r.bodyOK THEN <<"failed to read request body">>
                               ELSE LET v == verifySignature(
                                                 createStringToSign(r, r.body, r.date, r.chash),
                                                 parsed.signature, found.secret,
                                                 getAlgorithm(c.algorithm))
                                    IN  IF v.ok THEN <<>>
                                        ELSE IF v.err # "" THEN <<"invalid HMAC signature", v.err>>
                                        ELSE <<"invalid HMAC signature">>

FailureKind(e) ==
    IF e = <<>> THEN "Accepted"
    ELSE IF e[1] \in {"missing Authorization header", "missing Date header",
                      "missing x-content-hmac header"} THEN "MissingHeader"
    ELSE IF e[1] = "invalid Authorization header" THEN "MalformedHeader"
    ELSE IF e[1] = "client not found or invalid" THEN "ClientNotFound"
    ELSE IF e[1] = "access denied to route" THEN "RouteForbidden"
    ELSE IF e[1] = "failed to read request body" THEN "BodyReadFailure"
    ELSE IF Len(e) = 2 THEN "InvalidSecretEncoding"
    ELSE "SignatureMismatch"

Ran(name) == \E i \in 1..Len(ran) : ran[i] = name

\* the steps agree with the function
StepsAgree == pc \in {"returned", "next", "done"} /\ Installed => err = validateHMACSignature(req, cfg)

(***************************************************************************)
(* several requests served at once: one goroutine each, all reading the    *)
(* same HMACConfig.  A step is one read of the configuration (the client   *)
(* list, the route rights, the algorithm name) or the request-local work   *)
(* before it.                                                              *)
(***************************************************************************)
\* the handler's own variables, which the goroutines of this machine leave alone
handlerVars == <<wiring, pc, req, rbody, credential, signature, dateHeader, contentHash,
                 clientSecret, body, stringToSign, err, ran, status, detail, nextCalls,
                 handlerBody, logs, origin>>

ConcConfigs == {c \in Configs : c.required /\ c.algorithm = Sha256Name}

ConcRequests(c) ==
    {Signed(c, Wire0, "absent", ClientA, "good")}
        \cup {Signed(c, Wire0, "std", id, kind) : id \in ClientIDs, kind \in {"good", "junk"}}

InitConc ==
    /\ Init
    /\ cfg \in ConcConfigs
    /\ wiring = "direct"

\* what goroutine p does next: it returns e when e is an error, else goes on
ProcStep(p, e, then) ==
    [procs EXCEPT ![p].err = e, ![p].pc = IF e # <<>> THEN "returned" ELSE then]

CArrive(p) ==
    /\ procs[p].pc = "idle"
    /\ \E r \in ConcRequests(cfg) :
         procs' = [procs EXCEPT ![p] = [IdleProc EXCEPT !.pc = "headers", !.req = r,
                                           !.alone = validateHMACSignature(r, cfg)]]
    /\ UNCHANGED <<svc, osenv, wait, mig, cfg, handlerVars>>

\* the Authorization, Date and x-content-hmac headers: the request alone is read
CHeaders(p) ==
    /\ procs[p].pc = "headers"
    /\ LET r      == procs[p].req
           parsed == parseAuthorizationHeader(r.auth)
           e      == IF r.auth = Empty THEN <<"missing Authorization header">>
                     ELSE IF parsed.err # "" THEN <<"invalid Authorization header", parsed.err>>
                     ELSE IF r.date = Empty THEN <<"missing Date header">>
                     ELSE IF r.chash = Empty THEN <<"missing x-content-hmac header">>
                     ELSE <<>>
       IN  procs' = [ProcStep(p, e, "findClient") EXCEPT
                        ![p].credential = parsed.credential,
                        ![p].signature = parsed.signature]
    /\ UNCHANGED <<svc, osenv, wait, mig, cfg, handlerVars>>

\* a lookup that takes the record it finds out of the shared list
CFindClient_Consuming(p) ==
    /\ procs[p].pc = "findClient"
    /\ LET found == findClientSecret(procs[p].credential, cfg.clientSecrets)
       IN  /\ procs' = [ProcStep(p, IF found.err # ""
                                    THEN <<"client not found or invalid", found.err>>
                                    ELSE <<>>, "checkRoute")
                           EXCEPT ![p].secret = found.secret]
           /\ cfg' = [cfg EXCEPT !.clientSecrets =
                         SelectSeq(cfg.clientSecrets,
                                   LAMBDA rec : rec.ClientID # procs[p].credential)]
    /\ UNCHANGED <<svc, osenv, wait, mig, handlerVars>>

\* config.GetClientSecrets() and the lookup in it
CFindClient(p) ==
    /\ procs[p].pc = "findClient"
    /\ LET found == findClientSecret(procs[p].credential, cfg.clientSecrets)
       IN  procs' = [ProcStep(p, IF found.err # ""
                                 THEN <<"client not found or invalid", found.err>>
                                 ELSE <<>>, "checkRoute")
                        EXCEPT ![p].secret = found.secret]
    /\ UNCHANGED <<svc, osenv, wait, mig, cfg, handlerVars>>

\* config.GetRouteRights() and the route check
CCheckRoute(p) ==
    /\ procs[p].pc = "checkRoute"
    /\ LET denied == checkRouteAccess(procs[p].credential, procs[p].req.path, cfg.routeRights)
       IN  procs' = ProcStep(p, IF denied # "" THEN <<"access denied to route", denied>>
                                ELSE <<>>, "verify")
    /\ UNCHANGED <<svc, osenv, wait, mig, cfg, handlerVars>>

\* the body read and restored, the string to sign, config.GetAlgorithm() and the comparison
CVerify(p) ==
    /\ procs[p].pc = "verify"
    /\ LET r == procs[p].req
           v == verifySignature(createStringToSign(r, r.body, r.date, r.chash),
                                procs[p].signature, procs[p].secret,
                                getAlgorithm(cfg.algorithm))
       IN  procs' = ProcStep(p, IF ~r.bodyOK THEN <<"failed to read request body">>
                                ELSE IF v.ok THEN <<>>
                                ELSE IF v.err # "" THEN <<"invalid HMAC signature", v.err>>
                                ELSE <<"invalid HMAC signature">>, "returned")
    /\ UNCHANGED <<svc, osenv, wait, mig, cfg, handlerVars>>

\* the response is written and the goroutine ends
CFinish(p) ==
    /\ procs[p].pc = "returned"
    /\ procs' = [procs EXCEPT ![p] = IdleProc]
    /\ UNCHANGED <<svc, osenv, wait, mig, cfg, handlerVars>>

NextConc ==
    \E p \in Procs :
        \/ CArrive(p)
        \/ CHeaders(p)
        \/ CFindClient(p)
        \/ CCheckRoute(p)
        \/ CVerify(p)
        \/ CFinish(p)

SpecConc == InitConc /\ [][NextConc]_vars

(***************************************************************************)
(* the claims                                                              *)
(***************************************************************************)

\* what the four checks the claim names say of the request in hand
HeaderParsed  == req.auth # Empty /\ parseAuthorizationHeader(req.auth).err = ""
ClientFound   == findClientSecret(parseAuthorizationHeader(req.auth).credential,
                                  cfg.clientSecrets).err = ""
RouteAllowed  == checkRouteAccess(parseAuthorizationHeader(req.auth).credential,
                                  req.path, cfg.routeRights) = ""
SignatureMatched ==
    verifySignature(SignerStringToSign(req), parseAuthorizationHeader(req.auth).signature,
                    findClientSecret(parseAuthorizationHeader(req.auth).credential,
                                     cfg.clientSecrets).secret,
                    getAlgorithm(cfg.algorithm)).ok

\* C1: when authentication is required, a request any step of whose validation
\* failed is answered 401 and the downstream handler is not invoked for it; the
\* handler is invoked only for requests whose Authorization header parsed, whose
\* client was found, whose route was allowed and whose signature matched.
C1_RequiredFailsClosed ==
    cfg.required =>
        /\ (pc = "done" /\ err # <<>>) => (status = 401 /\ detail = err /\ nextCalls = 0)
        /\ (pc = "next" \/ nextCalls > 0) =>
               /\ err = <<>>
               /\ HeaderParsed /\ ClientFound /\ RouteAllowed /\ SignatureMatched
               /\ req.date # Empty /\ req.chash # Empty

C1_Witness ==
    /\ cfg.required
    /\ pc = "done"
    /\ FailureKind(err) = "SignatureMismatch"
    /\ status = 401
    /\ nextCalls = 0

\* C2: when authentication is not required, every request that fails validation
\* has its failure logged at warning level and is then dispatched to the
\* downstream handler.
C2_FailOpenIsLogged ==
    (~cfg.required /\ pc = "done" /\ validateHMACSignature(req, cfg) # <<>>) =>
        /\ nextCalls = 1
        /\ \E i \in 1..Len(logs) :
              logs[i].level = "warn" /\ logs[i].error = validateHMACSignature(req, cfg)

\* C3 as stated: a request without Date or x-content-hmac fails as MissingHeader
\* whatever its Authorization header, and no parsing of Credential/Signature,
\* client lookup, route check or signature computation has run.
C3_MissingHeaderBeforeParsing ==
    (pc = "returned" /\ (req.date = Empty \/ req.chash = Empty)) =>
        /\ FailureKind(err) = "MissingHeader"
        /\ ~Ran("parse") /\ ~Ran("findClient") /\ ~Ran("checkRoute")
        /\ ~Ran("stringToSign") /\ ~Ran("verify")

\* C3 amended: a request without Date or x-content-hmac is rejected after its
\* Authorization header was parsed and before client lookup, route check, body
\* read and signature computation: as MalformedHeader when the Authorization
\* header is present and malformed, as MissingHeader otherwise.
C3_MissingHeaderBeforeLookup ==
    (pc = "returned" /\ (req.date = Empty \/ req.chash = Empty)) =>
        /\ FailureKind(err) =
               IF req.auth # Empty /\ parseAuthorizationHeader(req.auth).err # ""
               THEN "MalformedHeader" ELSE "MissingHeader"
        /\ req.auth # Empty => Ran("parse")
        /\ ~Ran("findClient") /\ ~Ran("checkRoute") /\ ~Ran("readBody")
        /\ ~Ran("stringToSign") /\ ~Ran("verify")

C3_Witness ==
    /\ pc = "returned"
    /\ req.chash = Empty
    /\ req.date # Empty
    /\ HeaderParsed
    /\ err = <<"missing x-content-hmac header">>
    /\ ran = <<"authorization", "parse", "date", "contentHash">>

\* the '&'-separated parameters of a header of two segments
ParamsOf(header) == Split(Split(header, " ")[2], "&")

HasParam(header, prefix) ==
    \E i \in 1..Len(ParamsOf(header)) : HasPrefix(ParamsOf(header)[i], prefix)

\* the value of the last parameter that starts with prefix, empty when there is none
LastValue(header, prefix) ==
    LET params == ParamsOf(header)
        at     == {i \in 1..Len(params) : HasPrefix(params[i], prefix)}
    IN  IF at = {} THEN Empty
        ELSE LET last == CHOOSE i \in at : \A j \in at : j <= i
             IN  SubSeq(params[last], Len(prefix) + 1, Len(params[last]))

\* C4 as stated: parseAuthorizationHeader fails exactly when the header does not
\* split into two segments on a space or no Credential= or no Signature=
\* parameter is found; otherwise it returns the values of those parameters.
C4_FailsExactlyWhenParameterMissing ==
    Ran("parse") =>
        (FailureKind(err) = "MalformedHeader"
            <=> \/ Len(Split(req.auth, " ")) # 2
                \/ ~HasParam(req.auth, CredentialPrefix)
                \/ ~HasParam(req.auth, SignaturePrefix))

\* C4 amended: parseAuthorizationHeader fails exactly when the header does not
\* split into two segments on a space, or the last Credential= parameter or the
\* last Signature= parameter is missing or has an empty value; otherwise it
\* returns the values of the last Credential= and the last Signature=
\* parameter.  An empty Authorization header is reported as a missing header
\* and is not parsed.
C4_FailsExactlyWhenValueEmpty ==
    /\ (Ran("authorization") /\ req.auth = Empty) =>
           (err = <<"missing Authorization header">> /\ ~Ran("parse"))
    /\ Ran("parse") =>
           IF Len(Split(req.auth, " ")) # 2
           THEN err = <<"invalid Authorization header", "invalid Authorization header format">>
           ELSE IF \/ LastValue(req.auth, CredentialPrefix) = Empty
                   \/ LastValue(req.auth, SignaturePrefix) = Empty
           THEN err = <<"invalid Authorization header",
                        "missing Credential or Signature in Authorization header">>
           ELSE /\ FailureKind(err) # "MalformedHeader"
                /\ credential = LastValue(req.auth, CredentialPrefix)
                /\ signature = LastValue(req.auth, SignaturePrefix)

C4_Witness ==
    /\ Ran("parse")
    /\ Len(Split(req.auth, " ")) = 2
    /\ HasParam(req.auth, CredentialPrefix)
    /\ HasParam(req.auth, SignaturePrefix)
    /\ FailureKind(err) = "MalformedHeader"

\* the client identifier the request names
RequestClient == parseAuthorizationHeader(req.auth).credential

\* C5 as stated: a request whose client identifier has no entry in a non-empty
\* route-rights table is rejected with RouteForbidden (the request carrying all
\* three headers, its Authorization header well-formed).
C5_AbsentClientIsRouteForbidden ==
    (/\ pc = "returned"
     /\ HeaderParsed
     /\ req.date # Empty /\ req.chash # Empty
     /\ DOMAIN cfg.routeRights # {}
     /\ RequestClient \notin DOMAIN cfg.routeRights) =>
        FailureKind(err) = "RouteForbidden"

\* C5 amended: a request whose headers pass the header checks and whose client
\* identifier is in the credential list but has no entry in a non-empty
\* route-rights table is rejected with RouteForbidden whether or not its
\* signature is valid; and no request whose client identifier has no entry in a
\* non-empty table is Accepted or fails at the body or signature steps, which
\* never run for it.
C5_RouteCheckedBeforeSignature ==
    (/\ pc = "returned"
     /\ HeaderParsed
     /\ DOMAIN cfg.routeRights # {}
     /\ RequestClient \notin DOMAIN cfg.routeRights) =>
        /\ FailureKind(err) \in {"MissingHeader", "ClientNotFound", "RouteForbidden"}
        /\ ~Ran("readBody") /\ ~Ran("stringToSign") /\ ~Ran("verify")
        /\ (req.date # Empty /\ req.chash # Empty /\ ClientFound) =>
               FailureKind(err) = "RouteForbidden"

C5_Witness ==
    /\ pc = "returned"
    /\ DOMAIN cfg.routeRights # {}
    /\ credential \notin DOMAIN cfg.routeRights
    /\ SignatureMatched
    /\ req.bodyOK
    /\ FailureKind(err) = "RouteForbidden"

PathUpper  == <<"/","A">>
PathLonger == <<"/","a","b">>
PathRoot   == <<"/">>
TestPaths  == Paths \cup {PathUpper, PathLonger, PathRoot, Empty}
TestClients == ClientIDs \cup {Empty}

\* C6: with an empty route-rights table checkRouteAccess allows every client
\* identifier on every path, identifiers of no credential record included.
C6_EmptyTableAllowsAll ==
    DOMAIN cfg.routeRights = {} =>
        /\ \A id \in TestClients : \A p \in TestPaths :
              checkRouteAccess(id, p, cfg.routeRights) = ""
        /\ Ran("checkRoute") => FailureKind(err) # "RouteForbidden"

C6_Witness ==
    /\ DOMAIN cfg.routeRights = {}
    /\ pc = "readBody"
    /\ ran = <<"authorization", "parse", "date", "contentHash", "findClient", "checkRoute">>
    /\ \A i \in 1..Len(cfg.clientSecrets) : cfg.clientSecrets[i].ClientID # ClientZ

IsBytePrefix(pattern, path) ==
    /\ Len(pattern) <= Len(path)
    /\ \A i \in 1..Len(pattern) : pattern[i] = path[i]

Granted(id, path, routeRights) ==
    /\ id \in DOMAIN routeRights
    /\ \E i \in 1..Len(routeRights[id]) :
          routeRights[id][i] = Star \/ IsBytePrefix(routeRights[id][i], path)

\* C7: with a non-empty table checkRouteAccess forbids a client without entry
\* and otherwise allows exactly when one of the client's own patterns is "*" or
\* a byte-wise prefix of the path.
C7_AllowedIffOwnPatternMatches ==
    DOMAIN cfg.routeRights # {} =>
        /\ \A id \in TestClients : \A p \in TestPaths :
              checkRouteAccess(id, p, cfg.routeRights) = ""
                  <=> Granted(id, p, cfg.routeRights)
        /\ Ran("checkRoute") =>
              (FailureKind(err) = "RouteForbidden"
                  <=> ~Granted(credential, req.path, cfg.routeRights))

C7_Witness ==
    /\ DOMAIN cfg.routeRights # {}
    /\ pc = "readBody"
    /\ credential = ClientB
    /\ cfg.routeRights[ClientB] = <<PathA>>
    /\ req.path = PathAB
    /\ ClientZ \in DOMAIN cfg.routeRights /\ cfg.routeRights[ClientZ] = <<Star>>

\* C8: the string to sign is METHOD, "\n", PATH, "?" and the raw query only when
\* the query is not empty, "\n", DATE, ";", HOST, ";", CONTENTHASH, each value as
\* the request carries it, and it is the same for every body.
C8_CanonicalStringExact ==
    Ran("stringToSign") =>
        /\ stringToSign =
               req.method \o <<"\n">> \o req.path
                   \o (IF req.query = Empty THEN Empty ELSE <<"?">> \o req.query)
                   \o <<"\n">> \o req.date \o <<";">> \o req.host \o <<";">> \o req.chash
        /\ \A b \in Bodies \cup {body} :
               createStringToSign(req, b, dateHeader, contentHash) = stringToSign

C8_Witness ==
    /\ pc = "verify"
    /\ req.query # Empty
    /\ req.host # Localhost
    /\ req.body # Empty
    /\ Len(stringToSign) =
           Len(req.method) + Len(req.path) + Len(req.query) + Len(req.date)
               + Len(req.host) + Len(req.chash) + 5

TestSecrets == {Empty, SecretA, SecretA2, SecretB, SecretBad}

\* the canonical string CreateHMACSignature signs
SignedByCreateHMACSignature(method, path, date, hash) ==
    method \o <<"\n">> \o path \o <<"\n">> \o date \o <<";">> \o Localhost \o <<";">> \o hash

\* C9: for every base64-valid secret and every algorithm, the signature
\* CreateHMACSignature computes over a canonical string is accepted by
\* verifySignature for that string, secret and algorithm; in the handler, a
\* request carrying that signature for the string the handler rebuilt passes
\* the signature check.
C9_SignVerifyRoundTrip ==
    /\ pc = "verify" =>
        \A secret \in TestSecrets : \A name \in AlgorithmNames \cup {Empty} :
          LET made == CreateHMACSignature(req.method, req.path, req.body, req.date,
                                          req.chash, ClientA, secret, name)
          IN  IF DecodeString(secret).ok
              THEN /\ made.err = ""
                   /\ verifySignature(
                          SignedByCreateHMACSignature(req.method, req.path, req.date, req.chash),
                          made.signature, secret, getAlgorithm(name)).ok
              ELSE made.err # ""
    /\ (/\ Ran("verify")
        /\ stringToSign = SignedByCreateHMACSignature(req.method, req.path, dateHeader, contentHash)
        /\ DecodeString(clientSecret).ok
        /\ signature = CreateHMACSignature(req.method, req.path, body, dateHeader, contentHash,
                                           credential, clientSecret, cfg.algorithm).signature)
           => err = <<>>

C9_Witness ==
    /\ pc = "returned"
    /\ Ran("verify")
    /\ err = <<>>
    /\ cfg.algorithm = Sha512Name
    /\ clientSecret = SecretA2
    /\ signature = CreateHMACSignature(req.method, req.path, body, dateHeader, contentHash,
                                       credential, clientSecret, cfg.algorithm).signature

\* C10 as stated: an accepted request sent again with exactly one of method,
\* path, query, Date, Host, x-content-hmac changed is rejected with a signature
\* mismatch.
C10_OneChangeIsSignatureMismatch ==
    (pc = "returned" /\ origin.component \in Components) => FailureKind(err) = "SignatureMismatch"

\* C10 amended: an accepted request sent again with exactly one of method, path,
\* query, Date, Host, x-content-hmac changed is never accepted: it is rejected
\* with MissingHeader when the change empties the Date or x-content-hmac value,
\* with RouteForbidden when the changed path is outside the client's route
\* rights, and with a signature mismatch in every other case.
C10_OneChangeIsRejected ==
    (pc = "returned" /\ origin.component \in Components) =>
        /\ err # <<>>
        /\ FailureKind(err) =
              IF req.date = Empty \/ req.chash = Empty THEN "MissingHeader"
              ELSE IF ~RouteAllowed THEN "RouteForbidden"
              ELSE "SignatureMismatch"
        /\ FailureKind(err) = "MissingHeader" => origin.component \in {"date", "chash"}
        /\ FailureKind(err) = "RouteForbidden" => origin.component = "path"

C10_Witness ==
    /\ pc = "returned"
    /\ origin.component = "host"
    /\ validateHMACSignature(origin.base, cfg) = <<>>
    /\ req = [origin.base EXCEPT !.host = HostOther]
    /\ FailureKind(err) = "SignatureMismatch"

\* C11 (safety): body tampering is detected.  A request whose body is not the
\* body whose hash its x-content-hmac header carries (the body was changed
\* after signing, the headers left as signed) is never accepted.
C11_TamperedBodyNeverAccepted ==
    (/\ pc = "returned"
     /\ \E b \in Bodies : req.chash = createContentHash(b, cfg.algorithm)
     /\ req.chash # createContentHash(req.body, cfg.algorithm))
        => err # <<>>

\* C12 (frame effect): whenever the downstream handler is invoked, the body it
\* can read is byte for byte the body the request arrived with, on an accepted
\* request and also on a request that reaches the handler in not-required mode
\* after any validation failure.
C12_HandlerReadsArrivedBody ==
    (pc = "done" /\ nextCalls > 0) => handlerBody = req.body

\* C13 (error handling): a stored secret that is not valid base64 is no startup
\* failure and crashes nothing.  Configuration loading accepts it, and a request
\* of that client is rejected as InvalidSecretEncoding exactly when the
\* signature step is reached with that secret, that is after the header checks,
\* the client lookup and the route check have passed; it is never accepted.
C13_BadSecretFailsAtVerification ==
    /\ pc = "idle" =>
          \A env \in Environments :
              env.secretsJSON /\ env.rightsJSON => ProvideHMACConfig(env).err = ""
    /\ (pc = "returned" /\ FailureKind(err) = "InvalidSecretEncoding") =>
          /\ HeaderParsed /\ req.date # Empty /\ req.chash # Empty
          /\ ClientFound /\ RouteAllowed /\ req.bodyOK
          /\ ran = <<"authorization", "parse", "date", "contentHash", "findClient",
                     "checkRoute", "readBody", "stringToSign", "verify">>
    /\ (pc = "returned" /\ Ran("findClient") /\ ClientFound
           /\ ~DecodeString(clientSecret).ok) =>
          /\ err # <<>>
          /\ Ran("verify") <=> FailureKind(err) = "InvalidSecretEncoding"

C13_Witness ==
    /\ pc = "returned"
    /\ cfg.required
    /\ clientSecret = SecretBad
    /\ FailureKind(err) = "InvalidSecretEncoding"

\* the secrets and data HMACService is exercised with
ServiceSecrets == {<<"k">>, <<"k", "2">>}
ServiceData    == {Empty, <<"d">>, <<"d", "2">>}

\* the hash constructor of the algorithm that is not the configured one
OtherHash == IF cfg.algorithm = Sha512Name THEN "sha256.New" ELSE "sha512.New"

\* C14 (safety): a signature made with one of sha256 and sha512 never
\* validates under the other for the same secret and data, and the two
\* algorithms always give different signatures: for HMACService (Sign and
\* Verify), and in the middleware, where a request signed with the algorithm
\* that is not the configured one fails the signature check.
C14_AlgorithmsNeverAgree ==
    /\ pc = "verify" =>
          \A secret \in ServiceSecrets, data \in ServiceData :
              LET s256 == New(secret, Sha256Name)
                  s512 == New(secret, Sha512Name)
              IN  /\ Sign(s256, data) # Sign(s512, data)
                  /\ Verify(s256, data, Sign(s256, data))
                  /\ Verify(s512, data, Sign(s512, data))
                  /\ ~Verify(s512, data, Sign(s256, data))
                  /\ ~Verify(s256, data, Sign(s512, data))
    /\ (/\ pc = "returned"
        /\ Ran("verify")
        /\ DecodeString(clientSecret).ok
        /\ signature = HMACBase64(OtherHash, DecodeString(clientSecret).bytes, stringToSign))
          => FailureKind(err) = "SignatureMismatch"

C14_Witness ==
    /\ pc = "returned"
    /\ Ran("verify")
    /\ cfg.algorithm = Sha512Name
    /\ clientSecret = SecretB
    /\ signature = HMACBase64("sha256.New", <<66>>, stringToSign)
    /\ FailureKind(err) = "SignatureMismatch"

\* the header with its scheme token (the text before the first space) replaced
HasSpace(header) == \E i \in 1..Len(header) : header[i] = " "

WithScheme(header, scheme) ==
    IF HasSpace(header)
    THEN LET first == CHOOSE i \in 1..Len(header) :
                          header[i] = " " /\ \A j \in 1..(i - 1) : header[j] # " "
         IN  scheme \o SubSeq(header, first, Len(header))
    ELSE scheme

\* scheme tokens: the two the clients send, another one, and the empty one
\* (which is a token only in front of a parameter section)
SchemeTokens(header) ==
    {SchemeSHA256, SchemeSHA512, <<"B","e","a","r","e","r">>}
        \cup (IF HasSpace(header) THEN {Empty} ELSE {})

\* C15 (security): the verification algorithm is selected by the configured
\* name only, never by the scheme token of the Authorization header.  A request
\* and the same request with another scheme token (HMAC-SHA256, HMAC-SHA512 or
\* any other single token), everything else and the configuration equal, get
\* the same outcome: both accepted or both rejected with the same error.
C15_SchemeTokenIgnored ==
    (pc = "returned" /\ origin = NoOrigin /\ req.auth # Empty) =>
        \A scheme \in SchemeTokens(req.auth) :
            validateHMACSignature([req EXCEPT !.auth = WithScheme(req.auth, scheme)], cfg) = err

C15_Witness ==
    /\ pc = "returned"
    /\ err = <<>>
    /\ cfg.algorithm = Sha256Name
    /\ req.auth = WithScheme(req.auth, SchemeSHA512)

\* strings.Join
RECURSIVE Join(_, _)
Join(elems, sep) ==
    IF elems = <<>> THEN Empty
    ELSE IF Len(elems) = 1 THEN elems[1]
    ELSE elems[1] \o <<sep>> \o Join(Tail(elems), sep)

SignedHeadersPrefix == <<"S","i","g","n","e","d","H","e","a","d","e","r","s","=">>

IsSignedHeaders(param) == HasPrefix(param, SignedHeadersPrefix)

\* the header with every SignedHeaders parameter given the value
SetSignedHeaders(header, value) ==
    LET parts == Split(header, " ")
        Set(segment) ==
            LET params == Split(segment, "&")
            IN  Join([i \in 1..Len(params) |->
                         IF IsSignedHeaders(params[i]) THEN SignedHeadersPrefix \o value
                         ELSE params[i]], "&")
    IN  Join([i \in 1..Len(parts) |-> Set(parts[i])], " ")

\* the header without its SignedHeaders parameters
DropSignedHeaders(header) ==
    LET parts == Split(header, " ")
        Drop(segment) ==
            LET params == Split(segment, "&")
            IN  IF \E i \in 1..Len(params) : IsSignedHeaders(params[i])
                THEN Join(SelectSeq(params, LAMBDA param : ~IsSignedHeaders(param)), "&")
                ELSE segment
    IN  Join([i \in 1..Len(parts) |-> Drop(parts[i])], " ")

\* the header with one more SignedHeaders parameter at the end
AddSignedHeaders(header, value) == header \o <<"&">> \o SignedHeadersPrefix \o value

\* values of SignedHeaders: free of the delimiters space and &
SignedHeadersValues ==
    {Empty, <<"d","a","t","e">>, <<"h","o","s","t",";","C","r","e","d","e","n","t","i","a","l","=","z">>}

SignedHeadersVariants(header) ==
    {DropSignedHeaders(header)}
        \cup {SetSignedHeaders(header, value) : value \in SignedHeadersValues}
        \cup {AddSignedHeaders(header, value) : value \in SignedHeadersValues}

\* C16 (security): the SignedHeaders parameter is not interpreted.  A request
\* and the same request with another value of SignedHeaders, without the
\* parameter, or with the parameter added, everything else and the
\* configuration equal, get the same outcome: both accepted or both rejected
\* with the same error.
C16_SignedHeadersIgnored ==
    (pc = "returned" /\ origin = NoOrigin /\ req.auth # Empty) =>
        \A header \in SignedHeadersVariants(req.auth) :
            validateHMACSignature([req EXCEPT !.auth = header], cfg) = err

C16_Witness ==
    /\ pc = "returned"
    /\ err = <<>>
    /\ req.auth # DropSignedHeaders(req.auth)
    /\ parseAuthorizationHeader(DropSignedHeaders(req.auth)).credential = credential

\* the positions of the records of a client in the credential list
RecordsOf(id) == {i \in 1..Len(cfg.clientSecrets) : cfg.clientSecrets[i].ClientID = id}

FirstRecordOf(id) == CHOOSE i \in RecordsOf(id) : \A j \in RecordsOf(id) : i <= j

\* C17 (functional correctness): the credential lookup returns the secret of
\* the first record of the credential list whose identifier equals the
\* requested one, also when later records carry the same identifier, and it
\* fails with ClientNotFound exactly when no record has that identifier (the
\* empty list included).
C17_FirstMatchingRecord ==
    /\ pc = "findClient" =>
          \A id \in TestClients :
              LET found == findClientSecret(id, cfg.clientSecrets)
              IN  IF RecordsOf(id) = {}
                  THEN found.err = "client ID not found" /\ found.secret = Empty
                  ELSE found.err = "" /\ found.secret = cfg.clientSecrets[FirstRecordOf(id)].Secret
    /\ (pc = "returned" /\ Ran("findClient")) =>
          /\ FailureKind(err) = "ClientNotFound" <=> RecordsOf(credential) = {}
          /\ RecordsOf(credential) # {} =>
                clientSecret = cfg.clientSecrets[FirstRecordOf(credential)].Secret

C17_Witness ==
    /\ pc = "returned"
    /\ Ran("verify")
    /\ credential = ClientA
    /\ RecordsOf(ClientA) = {1, 3}
    /\ clientSecret = SecretBad

\* C18 (error handling): a failure to read the request body is no
\* authentication failure.  It is not answered with the 401 problem response
\* in required mode and it is not swallowed as a warning in not-required mode
\* (the handler does not run on it): it is left to the outer HTTP layer.
C18_BodyReadFailureIsNoAuthFailure ==
    (pc = "done" /\ Installed /\ FailureKind(err) = "BodyReadFailure") =>
        /\ status # 401
        /\ logs = <<>>
        /\ nextCalls = 0

\* C19 (temporal): a signature lives at most HMAC_MAX_AGE seconds (300 when
\* not set).  A correctly signed request whose Date is older than the maximum
\* age is rejected, so an accepted request sent again after that lifetime is
\* not accepted.
C19_ExpiredSignatureRejected ==
    (pc = "returned" /\ origin.elapsed > cfg.maxAge) => err # <<>>

\* C20 (concurrency): the credential list and the route-rights table are never
\* modified after startup, and of any number of requests served at the same
\* time each gets the outcome it would get served alone, whatever the
\* interleaving of their steps.
C20_OutcomeAsIfAlone ==
    /\ [][cfg' = cfg]_vars
    /\ [](\A p \in Procs :
             procs[p].pc = "returned" =>
                 /\ procs[p].err = procs[p].alone
                 /\ procs[p].err = validateHMACSignature(procs[p].req, cfg))

C20_Witness ==
    /\ procs[1].pc = "returned"
    /\ procs[1].err = <<>>
    /\ procs[2].pc = "checkRoute"
    /\ procs[2].req.auth = procs[1].req.auth

\* the stored secret values a configuration may hold
StoredSecrets == {SecretA, SecretA2, SecretB, SecretBad}

\* the configurations that differ from c in stored secret values only: the
\* same client identifiers in the same order, the same route rights, algorithm,
\* maximum age and mode
SecretVariants(c) ==
    { [c EXCEPT !.clientSecrets =
           [i \in 1..Len(c.clientSecrets) |->
               HMACClientSecret(c.clientSecrets[i].ClientID, secrets[i])]] :
        secrets \in [1..Len(c.clientSecrets) -> StoredSecrets] }

\* C21 (security): authentication failures leak no internal state.  In
\* required mode a request that is rejected under two configurations that
\* differ only in the stored secret values gets the same 401 response, status
\* and detail, under both: the response does not tell whether a stored secret
\* fails to decode.
C21_ResponseIndependentOfSecrets ==
    (pc = "done" /\ Installed /\ cfg.required /\ status = 401 /\ origin = NoOrigin) =>
        \A other \in SecretVariants(cfg) :
            validateHMACSignature(req, other) # <<>> =>
                validateHMACSignature(req, other) = detail

(***************************************************************************)
(* internal/infrastructure/hmac: one HMACService and the calls made on it, *)
(* and the utility functions of the package                                *)
(***************************************************************************)
\* everything of the other packages at rest
hmacVars == <<cfg, procs, handlerVars>>

HandlerAtRest ==
    /\ HandlerInit
    /\ cfg = HMACConfig([secretsJSON |-> TRUE, clientSecrets |-> <<>>, rightsJSON |-> TRUE,
                         routeRights |-> NoRights, algorithm |-> Sha256Name,
                         maxAge |-> MaxAgeDefault, required |-> TRUE])
    /\ wiring = "setup"

\* algorithm names: the two constants, and names that are neither
UpperSha512 == <<"S","H","A","5","1","2">>
Md5Name     == <<"m","d","5">>
ServiceAlgorithms == {Sha256Name, Sha512Name, Empty, UpperSha512, Md5Name}

SecretArgs == ServiceSecrets \cup {Empty}

\* the signature arguments tried on a service: signatures of every data under
\* every secret and algorithm, the empty string and a text that is no signature
SignatureArgs ==
    {Sign(New(secret, algo), data) :
        secret \in SecretArgs, algo \in {Sha256Name, Sha512Name}, data \in ServiceData}
        \cup {Empty, <<"i","n","v","a","l","i","d">>}

NoCall ==
    [op |-> "", data |-> Empty, arg |-> Empty, secret |-> Empty, algo |-> Empty,
     out |-> Empty, ok |-> FALSE, err |-> ""]

InitService ==
    /\ HandlerAtRest
    /\ osenv = NoEnv
    /\ wait = NoWait
    /\ mig = NoMigrate
    /\ \E secret \in SecretArgs, algo \in ServiceAlgorithms :
         svc = [service |-> New(secret, algo), call |-> NoCall,
                first |-> [d \in ServiceData |-> Empty]]

\* the call returns; first keeps the first signature Sign gave for each data
Returns(call, newService) ==
    /\ svc' = [service |-> newService, call |-> call,
               first |-> IF call.op \in {"Sign", "SignString"} /\ svc.first[call.data] = Empty
                         THEN [svc.first EXCEPT ![call.data] = call.out]
                         ELSE svc.first]
    /\ UNCHANGED <<hmacVars, osenv, wait, mig>>

\* a hash kept from call to call and not reset: the data of the call before
\* is still in it
CallSign_KeepsHash ==
    \E data \in ServiceData :
        Returns([NoCall EXCEPT !.op = "Sign", !.data = data,
                               !.out = Sign(svc.service, svc.call.data \o data)],
                svc.service)

CallSign ==
    \E data \in ServiceData :
        Returns([NoCall EXCEPT !.op = "Sign", !.data = data, !.out = Sign(svc.service, data)],
                svc.service)

CallSignString ==
    \E data \in ServiceData :
        Returns([NoCall EXCEPT !.op = "SignString", !.data = data,
                               !.out = SignString(svc.service, data)],
                svc.service)

CallVerify ==
    \E data \in ServiceData, sig \in SignatureArgs :
        Returns([NoCall EXCEPT !.op = "Verify", !.data = data, !.arg = sig,
                               !.ok = Verify(svc.service, data, sig)],
                svc.service)

CallVerifyString ==
    \E data \in ServiceData, sig \in SignatureArgs :
        Returns([NoCall EXCEPT !.op = "VerifyString", !.data = data, !.arg = sig,
                               !.ok = VerifyString(svc.service, data, sig)],
                svc.service)

NextService ==
    \/ CallSign
    \/ CallSignString
    \/ CallVerify
    \/ CallVerifyString

SpecService == InitService /\ [][NextService]_vars

\* C22 (algebraic): for an HMACService with a fixed secret and algorithm,
\* Verify(data, signature) is true exactly when signature equals Sign(data):
\* the signature Sign gave for the data verifies, any other text is rejected,
\* the signature of other data is rejected; VerifyString and SignString agree
\* with Verify and Sign on the bytes of the string.
C22_VerifyIffSignature ==
    /\ svc.call.op \in {"Verify", "VerifyString"} =>
          /\ svc.call.ok <=> svc.call.arg = Sign(svc.service, svc.call.data)
          /\ svc.call.arg \in {Empty, <<"i","n","v","a","l","i","d">>} => ~svc.call.ok
          /\ \A other \in ServiceData \ {svc.call.data} :
                 svc.call.arg = Sign(svc.service, other) => ~svc.call.ok
          /\ svc.first[svc.call.data] # Empty =>
                 (svc.call.ok <=> svc.call.arg = svc.first[svc.call.data])
    /\ svc.call.op = "SignString" => svc.call.out = Sign(svc.service, svc.call.data)

C22_Witness ==
    /\ svc.call.op = "VerifyString"
    /\ svc.call.ok
    /\ svc.first[svc.call.data] = svc.call.arg
    /\ svc.service.algo = Sha512Name

\* C23 (determinism): signing is deterministic and leaves the service
\* unchanged.  Any number of Sign and SignString calls on one HMACService with
\* the same data, in any order and with calls on other data or Verify calls in
\* between, all return the same non-empty signature.
C23_SignIsDeterministic ==
    /\ [][svc'.service = svc.service]_vars
    /\ [](svc.call.op \in {"Sign", "SignString"} =>
             /\ svc.call.out # Empty
             /\ svc.call.out = svc.first[svc.call.data])

C23_Witness ==
    /\ svc.call.op = "SignString"
    /\ \A data \in ServiceData : svc.first[data] # Empty
    /\ svc.call.out = svc.first[svc.call.data]

(***************************************************************************)
(* the utility functions of the package, each call building its own service *)
(***************************************************************************)
InitUtility ==
    /\ HandlerAtRest
    /\ osenv = NoEnv
    /\ wait = NoWait
    /\ mig = NoMigrate
    /\ svc = [service |-> NoService.service, call |-> NoCall,
              first |-> [d \in ServiceData |-> Empty]]

\* the signatures tried on data under secret and algorithm: that of each data, and none
UtilitySignatures(secret, algorithm) ==
    {Sign(New(secret, algorithm), data) : data \in ServiceData} \cup {Empty}

CallSignData ==
    \E data \in ServiceData, secret \in SecretArgs, algo \in ServiceAlgorithms :
        LET r == SignData(data, secret, algo)
        IN  Returns([NoCall EXCEPT !.op = "SignData", !.data = data, !.secret = secret,
                                   !.algo = algo, !.out = r.sig, !.err = r.err],
                    svc.service)

CallSignStringData ==
    \E data \in ServiceData, secret \in SecretArgs, algo \in ServiceAlgorithms :
        LET r == SignStringData(data, secret, algo)
        IN  Returns([NoCall EXCEPT !.op = "SignStringData", !.data = data, !.secret = secret,
                                   !.algo = algo, !.out = r.sig, !.err = r.err],
                    svc.service)

CallVerifyData ==
    \E data \in ServiceData, secret \in SecretArgs, algo \in ServiceAlgorithms :
        \E sig \in UtilitySignatures(secret, algo) :
            LET r == VerifyData(data, sig, secret, algo)
            IN  Returns([NoCall EXCEPT !.op = "VerifyData", !.data = data, !.arg = sig,
                                       !.secret = secret, !.algo = algo,
                                       !.ok = r.ok, !.err = r.err],
                        svc.service)

CallVerifyStringData ==
    \E data \in ServiceData, secret \in SecretArgs, algo \in ServiceAlgorithms :
        \E sig \in UtilitySignatures(secret, algo) :
            LET r == VerifyStringData(data, sig, secret, algo)
            IN  Returns([NoCall EXCEPT !.op = "VerifyStringData", !.data = data, !.arg = sig,
                                       !.secret = secret, !.algo = algo,
                                       !.ok = r.ok, !.err = r.err],
                        svc.service)

NextUtility ==
    \/ CallSignData
    \/ CallSignStringData
    \/ CallVerifyData
    \/ CallVerifyStringData

SpecUtility == InitUtility /\ [][NextUtility]_vars

\* C24 (error handling): SignData, SignStringData, VerifyData and
\* VerifyStringData return an error, with an empty signature or a false
\* verdict, whenever the secret is the empty string, for every data, signature
\* and algorithm; with a non-empty secret they return no error and the result
\* of the corresponding HMACService method.
C24_UtilitiesRefuseEmptySecret ==
    LET c == svc.call
        h == New(c.secret, c.algo)
    IN  c.op \in {"SignData", "SignStringData", "VerifyData", "VerifyStringData"} =>
            IF c.secret = Empty
            THEN c.err = "secret cannot be empty" /\ c.out = Empty /\ ~c.ok
            ELSE /\ c.err = ""
                 /\ c.op = "SignData" => c.out = Sign(h, c.data)
                 /\ c.op = "SignStringData" => c.out = SignString(h, c.data)
                 /\ c.op = "VerifyData" => c.ok = Verify(h, c.data, c.arg)
                 /\ c.op = "VerifyStringData" => c.ok = VerifyString(h, c.data, c.arg)

C24_Witness ==
    /\ svc.call.op = "SignData"
    /\ svc.call.secret = Empty
    /\ svc.call.algo = Sha512Name
    /\ svc.call.err = "secret cannot be empty"

(***************************************************************************)
(* internal/infrastructure/config: the .env file and the environment       *)
(***************************************************************************)
SpaceChars == {" ", "\t"}

QuoteChars == {"\"", "'"}

RECURSIVE TrimLeft(_, _)
TrimLeft(s, cutset) ==
    IF s # <<>> /\ Head(s) \in cutset THEN TrimLeft(Tail(s), cutset) ELSE s

RECURSIVE TrimRight(_, _)
TrimRight(s, cutset) ==
    IF s # <<>> /\ s[Len(s)] \in cutset
    THEN TrimRight(SubSeq(s, 1, Len(s) - 1), cutset)
    ELSE s

\* strings.TrimSpace
TrimSpace(s) == TrimRight(TrimLeft(s, SpaceChars), SpaceChars)

\* strings.Trim(value, `"'`)
TrimQuotes(s) == TrimRight(TrimLeft(s, QuoteChars), QuoteChars)

\* strings.SplitN(line, "=", 2)
SplitN2(line) ==
    IF \E i \in 1..Len(line) : line[i] = "="
    THEN LET at == CHOOSE i \in 1..Len(line) :
                       line[i] = "=" /\ \A j \in 1..(i - 1) : line[j] # "="
         IN  <<SubSeq(line, 1, at - 1), SubSeq(line, at + 1, Len(line))>>
    ELSE <<line>>

\* os.Getenv: the value of a variable, empty when it is not set
Getenv(environ, key) == IF environ[key].set THEN environ[key].value ELSE Empty

Setenv(environ, key, value) == [environ EXCEPT ![key] = [set |-> TRUE, value |-> value]]

EnvKeys == {<<"A">>, <<"B">>}

\* one line of the .env file, the body of the loop of loadEnvOnce
LoadLine(environ, text) ==
    LET line  == TrimSpace(text)
        parts == SplitN2(line)
    IN  IF line = Empty \/ HasPrefix(line, <<"#">>) THEN environ
        ELSE IF Len(parts) # 2 THEN environ
        ELSE LET key   == TrimSpace(parts[1])
                 value == TrimQuotes(TrimSpace(parts[2]))
             IN  IF key \in EnvKeys /\ Getenv(environ, key) = Empty
                 THEN Setenv(environ, key, value)
                 ELSE environ

RECURSIVE LoadLines(_, _)
LoadLines(environ, lines) ==
    IF lines = <<>> THEN environ ELSE LoadLines(LoadLine(environ, Head(lines)), Tail(lines))

\* the environment after loadEnvOnce
loadEnvOnce(environ, file) ==
    IF file.status = "ok" THEN LoadLines(environ, file.lines) ELSE environ

\* the system environments and the .env files the service is started with
SetTo(value) == [set |-> TRUE, value |-> value]
Unset        == [set |-> FALSE, value |-> Empty]

SystemEnvironments ==
    [EnvKeys -> {Unset, SetTo(Empty), SetTo(<<"9">>)}]

EnvLines ==
    { <<"A","=","1">>, <<"A","=","2">>, <<" ","B"," ","="," ","'","x","'"," ">>,
      <<"#","A","=","3">>, <<"A">>, <<"A","=">> }

MaxEnvLines == 2

EnvFiles ==
    {[status |-> "absent", lines |-> <<>>], [status |-> "unreadable", lines |-> <<>>]}
        \cup {[status |-> "ok", lines |-> lines] :
                lines \in UNION {[1..n -> EnvLines] : n \in 0..MaxEnvLines}}

EnvDefaults == {Empty, <<"0">>}

NoLookup == [key |-> Empty, default |-> Empty, value |-> Empty]

InitEnv ==
    /\ HandlerAtRest
    /\ svc = NoService
    /\ wait = NoWait
    /\ mig = NoMigrate
    /\ \E system \in SystemEnvironments, file \in EnvFiles :
         osenv = [loaded |-> FALSE, system |-> system, environ |-> system, file |-> file,
                  got |-> NoLookup]

\* ensureEnvLoaded: envMutex.Do runs loadEnvOnce the first time only
ensureEnvLoaded(e) ==
    IF e.loaded THEN e
    ELSE [e EXCEPT !.loaded = TRUE, !.environ = loadEnvOnce(e.environ, e.file)]

LoadEnv ==
    /\ osenv' = ensureEnvLoaded(osenv)
    /\ UNCHANGED <<hmacVars, svc, wait, mig>>

GetEnvOrDefault ==
    /\ \E key \in EnvKeys, default \in EnvDefaults :
         LET e     == ensureEnvLoaded(osenv)
             value == Getenv(e.environ, key)
         IN  osenv' = [e EXCEPT !.got = [key |-> key, default |-> default,
                                         value |-> IF value # Empty THEN value ELSE default]]
    /\ UNCHANGED <<hmacVars, svc, wait, mig>>

NextEnv ==
    \/ LoadEnv
    \/ GetEnvOrDefault

SpecEnv == InitEnv /\ [][NextEnv]_vars

\* the lines of the file that give the variable a value
ProvidedBy(file, key) ==
    IF file.status # "ok" THEN <<>>
    ELSE SelectSeq(file.lines,
                   LAMBDA text :
                       LET line == TrimSpace(text)
                       IN  /\ line # Empty
                           /\ ~HasPrefix(line, <<"#">>)
                           /\ Len(SplitN2(line)) = 2
                           /\ TrimSpace(SplitN2(line)[1]) = key)

ValueOf(text) == TrimQuotes(TrimSpace(SplitN2(TrimSpace(text))[2]))

\* C25 (functional correctness): values are resolved with the documented
\* priority.  A variable set in the system environment always wins over the
\* .env file, a value of the .env file wins over the default, the default is
\* used only when neither provides the variable, and loading the .env file
\* never changes a variable the system environment already set.
C25_SystemThenFileThenDefault ==
    /\ \A key \in EnvKeys :
          osenv.system[key].set => osenv.environ[key] = osenv.system[key]
    /\ osenv.got.key # Empty =>
          LET key == osenv.got.key
          IN  osenv.got.value =
                  IF osenv.system[key].set THEN osenv.system[key].value
                  ELSE IF ProvidedBy(osenv.file, key) # <<>>
                       THEN ValueOf(ProvidedBy(osenv.file, key)[1])
                  ELSE osenv.got.default

(***************************************************************************)
(* the order of the steps of validateHMACSignature                         *)
(***************************************************************************)
StepOrder ==
    <<"authorization", "parse", "date", "contentHash", "findClient", "checkRoute",
      "readBody", "stringToSign", "verify">>

\* the failure kinds a step can report
KindsOf(step) ==
    CASE step \in {"authorization", "date", "contentHash"} -> {"MissingHeader"}
      [] step = "parse"      -> {"MalformedHeader"}
      [] step = "findClient" -> {"ClientNotFound"}
      [] step = "checkRoute" -> {"RouteForbidden"}
      [] step = "readBody"   -> {"BodyReadFailure"}
      [] step = "verify"     -> {"InvalidSecretEncoding", "SignatureMismatch"}
      [] OTHER               -> {}

IsPrefixOf(s, t) == Len(s) <= Len(t) /\ s = SubSeq(t, 1, Len(s))

\* the signature of the request in hand is not the one its client's secret gives
SignatureIsWrong ==
    ~verifySignature(createStringToSign(req, req.body, req.date, req.chash),
                     parseAuthorizationHeader(req.auth).signature,
                     findClientSecret(parseAuthorizationHeader(req.auth).credential,
                                      cfg.clientSecrets).secret,
                     getAlgorithm(cfg.algorithm)).ok

\* C26 (temporal): the steps run in one fixed order (the headers, the client
\* lookup, the route check, the signature check), each at most once for a
\* request; a step runs only while no earlier step has failed, so the failure
\* reported is that of the first failing step and nothing runs after it: an
\* unknown client is ClientNotFound whatever its route, a forbidden route is
\* RouteForbidden whatever the signature, and then the body is not read and
\* no string to sign is built or verified.
C26_StepsInOrderFailFast ==
    /\ [][(ran' # ran /\ ran' # <<>>)
            => /\ err = <<>>
               /\ Len(ran) < Len(StepOrder)
               /\ ran' = Append(ran, StepOrder[Len(ran) + 1])]_vars
    /\ [](/\ IsPrefixOf(ran, StepOrder)
          /\ (err # <<>>) => /\ ran # <<>>
                             /\ FailureKind(err) \in KindsOf(ran[Len(ran)])
          /\ (pc = "returned" /\ err = <<>> /\ Installed) => ran = StepOrder
          /\ (pc = "returned" /\ Ran("findClient")
                /\ findClientSecret(credential, cfg.clientSecrets).err # "")
               => /\ FailureKind(err) = "ClientNotFound"
                  /\ ~Ran("checkRoute")
          /\ (pc = "returned" /\ Ran("checkRoute")
                /\ checkRouteAccess(credential, req.path, cfg.routeRights) # "")
               => /\ FailureKind(err) = "RouteForbidden"
                  /\ ~Ran("readBody") /\ ~Ran("stringToSign") /\ ~Ran("verify")
                  /\ rbody = req.body
                  /\ stringToSign = Empty)

\* a known client asks for a route it has no right to, with a wrong signature
C26_Witness ==
    /\ pc = "returned"
    /\ ran = SubSeq(StepOrder, 1, 6)
    /\ FailureKind(err) = "RouteForbidden"
    /\ SignatureIsWrong
    /\ req.body # Empty

(***************************************************************************)
(* CreateSignedRequest: the request a client builds with the package's     *)
(* own signer                                                              *)
(***************************************************************************)
\* the URLs given to http.NewRequest, as the host, path and raw query parsed from them
SignedURLs == [host : Hosts, path : Paths, query : Queries]

\* now is the text time.Now() formats to
CreateSignedRequest(method, url, bodyBytes, clientID, secretKey, algorithm, now) ==
    LET hash == createContentHash(bodyBytes, algorithm)
        made == CreateHMACSignature(method, url.path, bodyBytes, now, hash, clientID,
                                    secretKey, algorithm)
        auth == <<"H","M","A","C","-","S","H","A">> \o TrimPrefix(algorithm, <<"s","h","a">>)
                    \o <<" ">> \o CredentialPrefix \o clientID
                    \o <<"&">> \o SignedHeadersParam
                    \o <<"&">> \o SignaturePrefix \o made.signature
    IN  IF made.err # "" THEN [req |-> Wire0, err |-> made.err]
        ELSE [req |-> [method |-> method, path |-> url.path, query |-> url.query,
                       host |-> url.host, date |-> now, chash |-> hash,
                       body |-> bodyBytes, bodyOK |-> TRUE, auth |-> auth],
              err |-> ""]

\* C27 (refinement/equivalence): a request built by CreateSignedRequest for a
\* client, its base64 secret and the configured algorithm is accepted by the
\* middleware configured with that secret, that algorithm and route rights
\* allowing the path, for every method, URL (query strings and hosts other
\* than localhost included) and body: the string CreateHMACSignature signed is
\* the string createStringToSign rebuilds from the request.
C27_SignedRequestAccepted ==
    pc = "idle" =>
        \A id \in ClientIDs, method \in Methods, url \in SignedURLs, b \in Bodies :
            LET found == findClientSecret(id, cfg.clientSecrets)
                built == CreateSignedRequest(method, url, b, id, found.secret, cfg.algorithm,
                                             DateMon)
            IN  (/\ found.err = ""
                 /\ DecodeString(found.secret).ok
                 /\ checkRouteAccess(id, url.path, cfg.routeRights) = "")
                => /\ built.err = ""
                   /\ SignedByCreateHMACSignature(method, url.path, DateMon, built.req.chash)
                          = createStringToSign(built.req, b, DateMon, built.req.chash)
                   /\ validateHMACSignature(built.req, cfg) = <<>>

(***************************************************************************)
(* the algorithm a name selects                                            *)
(***************************************************************************)
\* the hash constructor the name stands for
SelectedHash(name) == IF name = <<"s","h","a","5","1","2">> THEN "sha512.New" ELSE "sha256.New"

\* a service started with the name as HMAC_ALGORITHM and one client
NamedEnvironment(name) ==
    [secretsJSON |-> TRUE, clientSecrets |-> <<HMACClientSecret(ClientA, SecretA)>>,
     rightsJSON |-> TRUE, routeRights |-> NoRights,
     algorithm |-> name, maxAge |-> MaxAgeDefault, required |-> TRUE]

\* C28 (functional correctness): algorithm selection is total.  The name
\* "sha512" selects the 512-bit hash and every other name (empty, unknown,
\* "SHA512") selects the 256-bit hash, the same in getAlgorithm, in
\* createContentHash and in HMACService.getHash; no name makes the service
\* fail to start, a signature fail to be made, or a rightly signed request
\* be rejected.
C28_AlgorithmSelectionTotal ==
    LET name == svc.service.algo
    IN  /\ getAlgorithm(name) = SelectedHash(name)
        /\ getHash(svc.service) = SelectedHash(name)
        /\ \A d \in ServiceData :
              createContentHash(d, name) = HashBase64(SelectedHash(name), d)
        /\ svc.call.op \in {"Sign", "SignString"} =>
              /\ svc.call.err = ""
              /\ svc.call.out = HMACHex(SelectedHash(name), svc.service.secret, svc.call.data)
        /\ svc.call.op = "" =>
              /\ ProvideHMACConfig(NamedEnvironment(name)).err = ""
              /\ \A d \in ServiceData :
                    LET built == CreateSignedRequest(MethodPost, [host |-> Localhost, path |-> PathA,
                                                                  query |-> Empty],
                                                     d, ClientA, SecretA, name, DateMon)
                    IN  /\ built.err = ""
                        /\ validateHMACSignature(built.req, HMACConfig(NamedEnvironment(name))) = <<>>

\* a service named SHA512 has signed with the 256-bit hash
C28_Witness ==
    /\ svc.service.algo = UpperSha512
    /\ svc.call.op = "Sign"
    /\ svc.call.out = Sign(New(svc.service.secret, Sha256Name), svc.call.data)
    /\ svc.call.out # Sign(New(svc.service.secret, Sha512Name), svc.call.data)

(***************************************************************************)
(* migration: IntegrationManager.WaitForDatabase                           *)
(*                                                                         *)
(* One call.  Status() returns with an error or without one; the context   *)
(* can be cancelled at any moment by its owner.  A goroutine blocked in    *)
(* the select is woken by the first of the two events (the cancellation or *)
(* the timer), which decides the case taken; when the select is entered    *)
(* with cases already ready one of them is taken, whichever.               *)
(***************************************************************************)
\* the largest RetryAttempts tried
MaxRetryAttempts == 3

RetryAttemptsValues == -1..MaxRetryAttempts

\* RetryInterval: none, or some time
RetryIntervals == {0, 1}

InitWait ==
    /\ HandlerAtRest
    /\ svc = NoService
    /\ osenv = NoEnv
    /\ mig = NoMigrate
    /\ \E attempts \in RetryAttemptsValues, interval \in RetryIntervals, cancelled \in BOOLEAN :
         wait = [pc |-> "loop", RetryAttempts |-> attempts, RetryInterval |-> interval,
                 attempt |-> 1, probes |-> <<>>, selects |-> 0, timer |-> "off",
                 cancelled |-> cancelled, cancelledAt |-> IF cancelled THEN "before" ELSE "",
                 result |-> ""]

WaitReturns(w, result) == [w EXCEPT !.pc = "done", !.result = result, !.timer = "off"]

\* continue: attempt++ and the loop condition again
WaitContinues(w) == [w EXCEPT !.pc = "loop", !.attempt = @ + 1, !.timer = "off"]

\* the loop exit: attempt > RetryAttempts
WaitGivesUp ==
    /\ wait.pc = "loop"
    /\ wait.attempt > wait.RetryAttempts
    /\ wait' = WaitReturns(wait, "unavailable")
    /\ UNCHANGED <<hmacVars, svc, osenv, mig>>

\* an iteration that enters the select after the last attempt too
WaitProbe_AlwaysWaits ==
    /\ wait.pc = "loop"
    /\ wait.attempt <= wait.RetryAttempts
    /\ \E ok \in BOOLEAN :
         LET probed == [wait EXCEPT !.probes = Append(@, ok)]
         IN  wait' = IF ok THEN WaitReturns(probed, "nil")
                     ELSE [probed EXCEPT !.pc = "select", !.timer = "running"]
    /\ UNCHANGED <<hmacVars, svc, osenv, mig>>

\* one iteration up to the select: Status(), and time.After when attempts remain
WaitProbe ==
    /\ wait.pc = "loop"
    /\ wait.attempt <= wait.RetryAttempts
    /\ \E ok \in BOOLEAN :
         LET probed == [wait EXCEPT !.probes = Append(@, ok)]
         IN  wait' = IF ok THEN WaitReturns(probed, "nil")
                     ELSE IF wait.attempt < wait.RetryAttempts
                          THEN [probed EXCEPT !.pc = "select", !.timer = "running"]
                          ELSE WaitContinues(probed)
    /\ UNCHANGED <<hmacVars, svc, osenv, mig>>

\* the select statement is entered: a ready case is taken, else the goroutine blocks
WaitSelect ==
    /\ wait.pc = "select"
    /\ LET entered == [wait EXCEPT !.selects = @ + 1]
       IN  \/ /\ wait.cancelled
              /\ wait' = WaitReturns(entered, "ctx")
           \/ /\ wait.timer = "fired"
              /\ wait' = WaitContinues(entered)
           \/ /\ ~wait.cancelled /\ wait.timer # "fired"
              /\ wait' = [entered EXCEPT !.pc = "waiting"]
    /\ UNCHANGED <<hmacVars, svc, osenv, mig>>

\* the timer of time.After fires: it wakes the blocked goroutine, which
\* continues; before the select is entered it can fire only when the
\* interval is no time at all
WaitTimerFires ==
    /\ wait.timer = "running"
    /\ \/ /\ wait.pc = "waiting"
          /\ wait' = WaitContinues(wait)
       \/ /\ wait.pc = "select"
          /\ wait.RetryInterval = 0
          /\ wait' = [wait EXCEPT !.timer = "fired"]
    /\ UNCHANGED <<hmacVars, svc, osenv, mig>>

\* the owner of the context cancels it: a goroutine blocked in the select is
\* woken with the ctx.Done() case
WaitCancel ==
    /\ wait.pc \in {"loop", "select", "waiting"}
    /\ ~wait.cancelled
    /\ LET c == [wait EXCEPT !.cancelled = TRUE, !.cancelledAt = wait.pc]
       IN  wait' = IF wait.pc = "waiting" THEN WaitReturns(c, "ctx") ELSE c
    /\ UNCHANGED <<hmacVars, svc, osenv, mig>>

\* what the function does by itself: Status() returns and timers fire
WaitRuns ==
    \/ WaitGivesUp
    \/ WaitProbe
    \/ WaitSelect
    \/ WaitTimerFires

NextWait ==
    \/ WaitRuns
    \/ WaitCancel

SpecWait == InitWait /\ [][NextWait]_vars /\ WF_vars(WaitRuns)

\* the probes made so far all failed
AllFailed(probes) == \A i \in 1..Len(probes) : ~probes[i]

Max0(n) == IF n > 0 THEN n ELSE 0

\* C29 (termination): WaitForDatabase probes at most RetryAttempts times and
\* always returns.  It returns nil at the first successful probe and probes
\* no more; it returns the unavailable error when all RetryAttempts probes
\* failed, having waited between them but not after the last; it returns the
\* context's error when the context is cancelled while it waits between two
\* probes; with RetryAttempts <= 0 it returns the unavailable error without a
\* probe.
C29_WaitForDatabaseTerminates ==
    /\ <>(wait.pc = "done")
    /\ [][(Len(wait'.probes) > Len(wait.probes))
            => /\ AllFailed(wait.probes)
               /\ wait.result = ""
               /\ Len(wait'.probes) = Len(wait.probes) + 1]_vars
    /\ [][(wait.pc = "waiting" /\ ~wait.cancelled /\ wait'.cancelled)
            => /\ wait'.pc = "done"
               /\ wait'.result = "ctx"]_vars
    /\ [](/\ Len(wait.probes) <= Max0(wait.RetryAttempts)
          /\ wait.selects <= Max0(Len(wait.probes) - 1) + 1
          /\ wait.selects <= Max0(wait.RetryAttempts - 1)
          /\ wait.pc = "done" =>
                /\ wait.result \in {"nil", "unavailable", "ctx"}
                /\ wait.result = "nil" <=>
                      (wait.probes # <<>> /\ wait.probes[Len(wait.probes)])
                /\ wait.result = "unavailable" <=>
                      (/\ AllFailed(wait.probes)
                       /\ Len(wait.probes) = Max0(wait.RetryAttempts))
                /\ wait.result = "unavailable" =>
                      wait.selects = Max0(wait.RetryAttempts - 1)
                /\ wait.result = "ctx" =>
                      /\ wait.cancelled
                      /\ wait.selects = Len(wait.probes)
                /\ wait.RetryAttempts <= 0 =>
                      (wait.result = "unavailable" /\ wait.probes = <<>>))

\* the context was cancelled during the wait after the second failed probe
C29_Witness ==
    /\ wait.pc = "done"
    /\ wait.result = "ctx"
    /\ wait.cancelledAt = "waiting"
    /\ wait.probes = <<FALSE, FALSE>>
    /\ wait.RetryAttempts = 3

(***************************************************************************)
(* migration: IntegrationManager.EnsureMigrations                          *)
(*                                                                         *)
(* One call: the calling goroutine, the goroutine it starts for Up(), the  *)
(* result channel between them and the context with its timeout.           *)
(***************************************************************************)
\* make(chan error, 1)
ResultCap == 1

\* what Status() and Up() return: nil or an error
StatusErrors == {"nil", "no connection"}
UpErrors     == {"nil", "dirty database", "migration failed"}

\* Timeout: none, or some time
Timeouts == {0, 1}

\* the most migrations not yet applied to the database
MaxPending == 2

InitMigrate ==
    /\ HandlerAtRest
    /\ svc = NoService
    /\ osenv = NoEnv
    /\ wait = NoWait
    /\ \E auto \in BOOLEAN, timeout \in Timeouts, parentDone \in BOOLEAN,
          pending \in 0..MaxPending :
         mig = [pc |-> "start", AutoMigrate |-> auto, Timeout |-> timeout,
                ctxDone |-> parentDone, statusCalls |-> 0, statusErr |-> "nil",
                pending |-> pending, applied |-> 0,
                upCalls |-> 0, upErr |-> "nil", goroutine |-> "none", result |-> <<>>,
                returned |-> "", lateUp |-> FALSE]

\* line 48: automatic migrations disabled
MigrateDisabled ==
    /\ mig.pc = "start"
    /\ ~mig.AutoMigrate
    /\ mig' = [mig EXCEPT !.pc = "done", !.returned = "nil"]
    /\ UNCHANGED <<hmacVars, svc, osenv, wait>>

\* lines 56-69: Status(), then the context, the channel and the goroutine
MigrateStatus ==
    /\ mig.pc = "start"
    /\ mig.AutoMigrate
    /\ \E e \in StatusErrors :
         LET checked == [mig EXCEPT !.statusCalls = @ + 1, !.statusErr = e]
         IN  mig' = IF e # "nil"
                    THEN [checked EXCEPT !.pc = "done",
                                         !.returned = "error checking migration status"]
                    ELSE [checked EXCEPT !.pc = "select", !.goroutine = "running",
                                         !.ctxDone = @ \/ mig.Timeout = 0]
    /\ UNCHANGED <<hmacVars, svc, osenv, wait>>

\* the goroutine: im.manager.Up() returns, nil when every pending migration
\* was applied (or none was pending), an error when it stopped before
MigrateUp ==
    /\ mig.goroutine = "running"
    /\ \E e \in UpErrors, n \in 0..mig.pending :
         /\ e = "nil" => n = mig.pending
         /\ e # "nil" => (n < mig.pending \/ mig.pending = 0)
         /\ mig' = [mig EXCEPT !.upCalls = @ + 1, !.upErr = e, !.applied = n,
                               !.goroutine = "sending", !.lateUp = (mig.pc = "done")]
    /\ UNCHANGED <<hmacVars, svc, osenv, wait>>

\* a send on a channel without buffer: it needs the receiver in the select
MigrateSend_Unbuffered ==
    /\ mig.goroutine = "sending"
    /\ mig.pc = "select"
    /\ mig' = [mig EXCEPT !.goroutine = "finished", !.pc = "done",
                          !.returned = IF mig.upErr = "nil" THEN "nil"
                                       ELSE "error applying migrations"]
    /\ UNCHANGED <<hmacVars, svc, osenv, wait>>

\* the goroutine: result <- err, into the buffer of the channel
MigrateSend ==
    /\ mig.goroutine = "sending"
    /\ Len(mig.result) < ResultCap
    /\ mig' = [mig EXCEPT !.result = Append(@, mig.upErr), !.goroutine = "finished"]
    /\ UNCHANGED <<hmacVars, svc, osenv, wait>>

\* the timeout passes or the parent context is cancelled
MigrateCtxDone ==
    /\ mig.pc = "select"
    /\ ~mig.ctxDone
    /\ mig' = [mig EXCEPT !.ctxDone = TRUE]
    /\ UNCHANGED <<hmacVars, svc, osenv, wait>>

\* the select: case err := <-result
MigrateReceive ==
    /\ mig.pc = "select"
    /\ mig.result # <<>>
    /\ mig' = [mig EXCEPT !.pc = "done", !.result = Tail(@),
                          !.returned = IF Head(mig.result) = "nil" THEN "nil"
                                       ELSE "error applying migrations"]
    /\ UNCHANGED <<hmacVars, svc, osenv, wait>>

\* the select: case <-ctx.Done()
MigrateTimeout ==
    /\ mig.pc = "select"
    /\ mig.ctxDone
    /\ mig' = [mig EXCEPT !.pc = "done", !.returned = "migration timeout"]
    /\ UNCHANGED <<hmacVars, svc, osenv, wait>>

NextMigrate ==
    \/ MigrateDisabled
    \/ MigrateStatus
    \/ MigrateUp
    \/ MigrateSend
    \/ MigrateCtxDone
    \/ MigrateReceive
    \/ MigrateTimeout

\* goroutines that can run do run
SpecMigrate ==
    /\ InitMigrate
    /\ [][NextMigrate]_vars
    /\ WF_vars(MigrateSend)
    /\ WF_vars(MigrateReceive \/ MigrateTimeout)

\* C30 as stated: without AutoMigrate neither Status nor Up is called and nil
\* is returned; with AutoMigrate Up is called at most once and what is
\* returned is the result of Up or the timeout error.
C30_UpResultOrTimeout ==
    /\ ~mig.AutoMigrate => (mig.statusCalls = 0 /\ mig.upCalls = 0 /\ mig.applied = 0)
    /\ mig.upCalls <= 1
    /\ (mig.pc = "done" /\ ~mig.AutoMigrate) => mig.returned = "nil"
    /\ (mig.pc = "done" /\ mig.AutoMigrate) =>
          \/ mig.returned = "migration timeout"
          \/ /\ mig.upCalls = 1
             /\ mig.returned = IF mig.upErr = "nil" THEN "nil" ELSE "error applying migrations"

\* C30 (concurrency): without AutoMigrate, EnsureMigrations returns nil and
\* calls neither Status nor Up.  With AutoMigrate it calls Status once; when
\* Status fails it returns the status error and Up is never called; else Up
\* is called at most once, in its own goroutine, and what is returned is
\* the result of Up or the timeout error.  The goroutine's send never blocks
\* (the channel holds one value and has one sender), so after a timeout the
\* goroutine still finishes, and a migration may complete after the timeout
\* was reported.
C30_StatusThenUpResultOrTimeout ==
    /\ [](/\ ~mig.AutoMigrate => (mig.statusCalls = 0 /\ mig.upCalls = 0 /\ mig.applied = 0)
          /\ mig.upCalls = 0 => mig.applied = 0
          /\ mig.upCalls <= 1
          /\ mig.statusCalls <= 1
          /\ mig.upCalls = 1 => (mig.statusCalls = 1 /\ mig.statusErr = "nil")
          /\ Len(mig.result) <= ResultCap
          /\ (mig.pc = "done" /\ ~mig.AutoMigrate) => mig.returned = "nil"
          /\ (mig.pc = "done" /\ mig.AutoMigrate) =>
                /\ mig.statusCalls = 1
                /\ mig.statusErr # "nil" <=> mig.returned = "error checking migration status"
                /\ mig.statusErr # "nil" => mig.upCalls = 0
                /\ mig.statusErr = "nil" =>
                      \/ mig.returned = "migration timeout" /\ mig.ctxDone
                      \/ /\ mig.upCalls = 1
                         /\ mig.goroutine = "finished"
                         /\ ~mig.lateUp
                         /\ mig.returned = IF mig.upErr = "nil" THEN "nil"
                                            ELSE "error applying migrations")
    /\ (mig.goroutine = "sending") ~> (mig.goroutine = "finished")
    /\ (mig.pc = "select" /\ mig.ctxDone) ~> (mig.pc = "done")

\* the timeout was reported, then Up() returned without error and its result
\* was put into the channel, where nobody reads it
C30_Witness ==
    /\ mig.pc = "done"
    /\ mig.returned = "migration timeout"
    /\ mig.lateUp
    /\ mig.upErr = "nil"
    /\ mig.applied = mig.pending
    /\ mig.pending > 0
    /\ mig.goroutine = "finished"
    /\ mig.result = <<"nil">>

====
